---------------------------- MODULE Spec2Model ----------------------------
(***************************************************************************)
(* A model of the Arboric scheduling engine:                               *)
(*   arboric/core/models.py       Workload, WorkloadDependency,            *)
(*                                ScheduleResult, FleetOptimizationResult  *)
(*   arboric/core/constraints.py  DependencyGraph                          *)
(*   arboric/core/autopilot.py    OptimizationConfig, Autopilot            *)
(*                                                                         *)
(* Units.  Time is counted in whole hours from an arbitrary origin, so a   *)
(* timestamp and a timedelta are integers.  A price is in cents per kWh,   *)
(* a carbon intensity in g per kWh, a weight in hundredths.  The mean of   *)
(* a forecast slice is kept exactly as MeanScale times the mean, where     *)
(* MeanScale is a common multiple of every possible slice length; costs,   *)
(* carbon masses and scores carry that factor too (see the operators).     *)
(* Floating point rounding is not modelled: the arithmetic is exact.       *)
(***************************************************************************)
EXTENDS Integers, Sequences, FiniteSets, TLC

VARIABLES
    pc,                  \* where the caller is: which call has returned or raised
    workload,            \* the Workload passed to optimize_schedule
    forecast,            \* the caller's forecast DataFrame (a sequence of samples)
    config,              \* Autopilot.config
    optimization_log,    \* Autopilot._optimization_log
    result,              \* the ScheduleResult returned by optimize_schedule
    error,               \* the exception raised by the last call ("none": none)
    workloads,           \* the workload list passed to DependencyGraph / optimize_fleet
    dep_graph,           \* the DependencyGraph under construction / constructed
    execution_order,     \* the list returned by topological_sort
    schedules,           \* optimize_fleet's local list of results
    completed_schedules, \* optimize_fleet's local dict id -> ScheduleResult
    fleet_result,        \* the FleetOptimizationResult returned by optimize_fleet
    value,               \* what the last read of a property or query method gave
    args                 \* the arguments the caller holds for a constructor call

vars == <<pc, workload, forecast, config, optimization_log, result, error,
          workloads, dep_graph, execution_order, schedules,
          completed_schedules, fleet_result, value, args>>

----------------------------------------------------------------------------
(* Bounds of the model *)

MaxLen == 3
MaxDur == 2
MaxDeadline == 3
MaxMinDelay == 1
MaxNodes == 4
MaxDeps == 2
MaxEdges == 4
MaxFleet == 3
MaxFleetEdges == 2
FleetLen == 2
MaxMetric == 3
MaxHour == 2

(* Program constants *)

PriceCeiling == 30
CarbonCeiling == 600
DefaultResolution == 1

----------------------------------------------------------------------------
(* Generic helpers *)

Max(a, b) == IF a >= b THEN a ELSE b

Min(a, b) == IF a <= b THEN a ELSE b

\* The element of a one-element set.  Only({f(x) : x \in {e}}) is f of the
\* value of e, which is worked out once: a local variable x assigned e.
Only(S) == CHOOSE v \in S : TRUE

RECURSIVE Factorial(_)
Factorial(n) == IF n <= 1 THEN 1 ELSE n * Factorial(n - 1)

\* Every slice length 1..MaxLen divides MeanScale.
MeanScale == Factorial(MaxLen)

RECURSIVE SumField(_, _)
SumField(s, fld) ==
    IF s = <<>> THEN 0 ELSE Head(s)[fld] + SumField(Tail(s), fld)

\* DataFrame.iloc[a:b] for 0 <= a: rows a .. b-1 (0-based), cut at the end.
ILoc(df, a, b) == SubSeq(df, a + 1, Min(b, Len(df)))

\* Series.mean() of a non-empty slice, times MeanScale.
Mean(slice, fld) == SumField(slice, fld) * (MeanScale \div Len(slice))

----------------------------------------------------------------------------
(* models.py *)

WorkloadPriority == {"critical", "high", "normal", "low"}

\* Workload.energy_kwh
energy_kwh(w) == w.power_draw_kw * w.duration_hours

\* The Field bounds le=... of duration_hours, power_draw_kw and deadline_hours
DurationLimit == 168
PowerLimit == 10000
DeadlineLimit == 720

\* The Field bounds alone, without the validator of deadline_hours
WorkloadValid_no_validator(w) ==
    /\ w.duration_hours > 0 /\ w.duration_hours <= DurationLimit
    /\ w.power_draw_kw > 0 /\ w.power_draw_kw <= PowerLimit
    /\ w.deadline_hours > 0 /\ w.deadline_hours <= DeadlineLimit

\* Workload.deadline_must_exceed_duration together with the Field bounds
\* gt=0 and le=... of duration_hours, power_draw_kw and deadline_hours.
WorkloadValid(w) ==
    /\ w.duration_hours > 0 /\ w.duration_hours <= DurationLimit
    /\ w.power_draw_kw > 0 /\ w.power_draw_kw <= PowerLimit
    /\ w.deadline_hours > 0 /\ w.deadline_hours <= DeadlineLimit
    /\ w.deadline_hours >= w.duration_hours

\* ScheduleResult's derived properties
cost_savings(r) == r.baseline_cost - r.optimized_cost

carbon_savings_kg(r) == r.baseline_carbon_kg - r.optimized_carbon_kg

delay_hours(r) == r.optimal_start - r.baseline_start

\* A percentage kept exactly, as the fraction num / den; 0.0 when the
\* baseline is 0
Percent(part, whole) ==
    IF whole = 0 THEN [num |-> 0, den |-> 1]
    ELSE [num |-> part * 100, den |-> whole]

\* cost_savings_percent with the optimized cost as the denominator
cost_savings_percent_of_optimized(r) ==
    Percent(cost_savings(r), r.optimized_cost)

cost_savings_percent(r) == Percent(cost_savings(r), r.baseline_cost)

carbon_savings_percent(r) == Percent(carbon_savings_kg(r), r.baseline_carbon_kg)

NoResult == [none |-> TRUE]

----------------------------------------------------------------------------
(* autopilot.py: the window scorer *)

\* float("inf") and the finite scores.  A finite score is kept as
\* score * PriceCeiling * CarbonCeiling * MeanScale / 100 (weights in hundredths
\* cancel the factor 100 of the normalisation).
Infinity == [inf |-> TRUE, val |-> 0]

Finite(v) == [inf |-> FALSE, val |-> v]

\* a < b on scores
ScoreLess_flipped(a, b) == ~b.inf /\ (a.inf \/ b.val < a.val)

\* a <= b on scores
ScoreLess_or_equal(a, b) == b.inf \/ (~a.inf /\ a.val <= b.val)

ScoreLess(a, b) == ~a.inf /\ (b.inf \/ a.val < b.val)

\* the composite of the two ratios left uncapped
composite_score_uncapped(avg_price, avg_carbon, cfg) ==
    avg_price * CarbonCeiling * cfg.price_weight
    + avg_carbon * PriceCeiling * cfg.carbon_weight

\* lines 109-120: the weighted composite of the two capped ratios
composite_score(avg_price, avg_carbon, cfg) ==
    LET price_normalized ==
            Min(avg_price, PriceCeiling * MeanScale) * CarbonCeiling
        carbon_normalized ==
            Min(avg_carbon, CarbonCeiling * MeanScale) * PriceCeiling
    IN  price_normalized * cfg.price_weight
        + carbon_normalized * cfg.carbon_weight

\* the scorer reading prefer_continuous: without it only the first sample
\* of the window is scored
calculate_window_score_if_continuous(forecast_slice, w, cfg) ==
    IF forecast_slice = <<>>
    THEN [score |-> Infinity, cost |-> 0, carbon |-> 0]
    ELSE LET scored == IF cfg.prefer_continuous THEN forecast_slice
                       ELSE SubSeq(forecast_slice, 1, 1)
             avg_price == Mean(scored, "price")
             avg_carbon == Mean(scored, "co2_intensity")
         IN  [score |-> Finite(composite_score(avg_price, avg_carbon, cfg)),
              cost |-> avg_price * energy_kwh(w),
              carbon |-> avg_carbon * energy_kwh(w)]

\* Autopilot._calculate_window_score: (composite, total_cost, total_carbon_kg).
\* total_cost is in cents * MeanScale, total_carbon_kg in g * MeanScale
\* (the division by 1000 is kept in the unit).
calculate_window_score(forecast_slice, w, cfg) ==
    IF forecast_slice = <<>>
    THEN [score |-> Infinity, cost |-> 0, carbon |-> 0]
    ELSE LET avg_price == Mean(forecast_slice, "price")
             avg_carbon == Mean(forecast_slice, "co2_intensity")
         IN  [score |-> Finite(composite_score(avg_price, avg_carbon, cfg)),
              cost |-> avg_price * energy_kwh(w),
              carbon |-> avg_carbon * energy_kwh(w)]

----------------------------------------------------------------------------
(* autopilot.py: optimize_schedule *)

\* lines 155-160: the spacing of the first two samples, 1 hour for one sample
resolution_hours(df) ==
    IF Len(df) > 1 THEN df[2].timestamp - df[1].timestamp
    ELSE DefaultResolution

\* one window whatever the duration
windows_needed_one(w, df) == 1

\* line 163
windows_needed(w, df) == Max(1, w.duration_hours \div resolution_hours(df))

\* line 215
min_delay_windows(cfg, df) == cfg.min_delay_hours \div resolution_hours(df)

max_start_idx_no_deadline(w, df) == Len(df) - windows_needed(w, df)

\* lines 217-225: the latest start index, 0-based; the first index whose
\* window would end after the deadline caps it.
max_start_idx(w, df) ==
    LET deadline == df[1].timestamp + w.deadline_hours
        late == {idx \in 0 .. Len(df) - 1 :
                    df[idx + 1].timestamp + w.duration_hours > deadline}
        first_late == CHOOSE idx \in late : \A j \in late : idx <= j
        bound == Len(df) - windows_needed(w, df)
    IN  IF late = {} THEN bound ELSE Min(bound, first_late - 1)

\* the scan with the windows compared by cost alone
RECURSIVE scan_windows_by_cost(_, _, _, _, _)
scan_windows_by_cost(start_idx, best, w, df, cfg) ==
    LET end_idx == start_idx + windows_needed(w, df)
    IN  IF start_idx > max_start_idx(w, df) \/ end_idx > Len(df)
        THEN best
        ELSE LET s == calculate_window_score(ILoc(df, start_idx, end_idx), w, cfg)
             IN  scan_windows_by_cost(start_idx + 1,
                              IF s.cost < best.cost
                              THEN [score |-> s.score, start_idx |-> start_idx,
                                    cost |-> s.cost, carbon |-> s.carbon]
                              ELSE best,
                              w, df, cfg)

\* lines 231-244: the scan, from start_idx on, carrying the best window so far
RECURSIVE scan_windows(_, _, _, _, _)
scan_windows(start_idx, best, w, df, cfg) ==
    LET end_idx == start_idx + windows_needed(w, df)
    IN  IF start_idx > max_start_idx(w, df) \/ end_idx > Len(df)
        THEN best
        ELSE LET s == calculate_window_score(ILoc(df, start_idx, end_idx), w, cfg)
                 better == ScoreLess(s.score, best.score)
             IN  scan_windows(start_idx + 1,
                              IF better
                              THEN [score |-> s.score, start_idx |-> start_idx,
                                    cost |-> s.cost, carbon |-> s.carbon]
                              ELSE best,
                              w, df, cfg)

\* lines 172-194: the CRITICAL short-circuit
critical_result(w, df, cfg) ==
    LET baseline_slice == ILoc(df, 0, windows_needed(w, df))
        b == calculate_window_score(baseline_slice, w, cfg)
        baseline_start == df[1].timestamp
    IN  [workload |-> w,
         optimal_start |-> baseline_start,
         optimal_end |-> baseline_start + w.duration_hours,
         baseline_start |-> baseline_start,
         baseline_end |-> baseline_start + w.duration_hours,
         optimized_cost |-> b.cost,
         optimized_carbon_kg |-> b.carbon,
         optimized_avg_price |-> Mean(baseline_slice, "price"),
         optimized_avg_carbon |-> Mean(baseline_slice, "co2_intensity"),
         baseline_cost |-> b.cost,
         baseline_carbon_kg |-> b.carbon,
         baseline_avg_price |-> Mean(baseline_slice, "price"),
         baseline_avg_carbon |-> Mean(baseline_slice, "co2_intensity")]

\* the search with best_cost and best_carbon starting at 0, not at the
\* baseline's
best_window_from_zero(w, df, cfg) ==
    scan_windows(min_delay_windows(cfg, df),
                 [score |-> Infinity, start_idx |-> 0, cost |-> 0, carbon |-> 0],
                 w, df, cfg)

\* lines 208-212 and 231-244: the best window of the search
best_window(w, df, cfg) ==
    LET b == calculate_window_score(ILoc(df, 0, windows_needed(w, df)), w, cfg)
    IN  scan_windows(min_delay_windows(cfg, df),
                     [score |-> Infinity, start_idx |-> 0,
                      cost |-> b.cost, carbon |-> b.carbon],
                     w, df, cfg)

\* lines 196-272: the search and the result built from it
searched_result(w, df, cfg) ==
    LET wn == windows_needed(w, df)
        baseline_slice == ILoc(df, 0, wn)
        b == calculate_window_score(baseline_slice, w, cfg)
        baseline_start == df[1].timestamp
        best == best_window(w, df, cfg)
        optimal_start == df[best.start_idx + 1].timestamp
        optimal_slice == ILoc(df, best.start_idx, best.start_idx + wn)
    IN  [workload |-> w,
         optimal_start |-> optimal_start,
         optimal_end |-> optimal_start + w.duration_hours,
         baseline_start |-> baseline_start,
         baseline_end |-> baseline_start + w.duration_hours,
         optimized_cost |-> best.cost,
         optimized_carbon_kg |-> best.carbon,
         optimized_avg_price |-> Mean(optimal_slice, "price"),
         optimized_avg_carbon |-> Mean(optimal_slice, "co2_intensity"),
         baseline_cost |-> b.cost,
         baseline_carbon_kg |-> b.carbon,
         baseline_avg_price |-> Mean(baseline_slice, "price"),
         baseline_avg_carbon |-> Mean(baseline_slice, "co2_intensity")]

\* The log lines optimize_schedule writes after clear_log (lines 145-256);
\* a line is kept as its fixed text.
schedule_log(w, df, cfg) ==
    <<"Initializing optimization">>
    \o (IF df = <<>> THEN <<>>
        ELSE <<"Workload duration", "Deadline", "Scanning">>
             \o (IF w.priority = "critical"
                 THEN <<"CRITICAL priority">>
                 ELSE <<"Baseline score", "Feasible start window",
                        "Optimal start", "Optimal score">>
                      \o (IF best_window(w, df, cfg).start_idx > 0
                          THEN <<"Delaying workload">> ELSE <<>>)))

\* optimize_schedule without the CRITICAL short-circuit
optimize_schedule_no_critical(w, df, cfg) ==
    IF df = <<>>
    THEN [error |-> "Forecast data is empty", result |-> NoResult,
          log |-> schedule_log(w, df, cfg)]
    ELSE [error |-> "none", result |-> searched_result(w, df, cfg),
          log |-> schedule_log(w, df, cfg)]

\* optimize_schedule without the check of lines 148-149: an empty forecast
\* then fails at forecast_df.index[0]
optimize_schedule_no_empty_check(w, df, cfg) ==
    IF df = <<>>
    THEN [error |-> "IndexError", result |-> NoResult,
          log |-> schedule_log(w, df, cfg)]
    ELSE [error |-> "none",
          result |-> IF w.priority = "critical"
                     THEN critical_result(w, df, cfg)
                     ELSE searched_result(w, df, cfg),
          log |-> schedule_log(w, df, cfg)]

\* optimize_schedule with HIGH priority run at once, as CRITICAL is
optimize_schedule_high_immediate(w, df, cfg) ==
    IF df = <<>>
    THEN [error |-> "Forecast data is empty", result |-> NoResult,
          log |-> schedule_log(w, df, cfg)]
    ELSE [error |-> "none",
          result |-> IF w.priority \in {"critical", "high"}
                     THEN critical_result(w, df, cfg)
                     ELSE searched_result(w, df, cfg),
          log |-> schedule_log(w, df, cfg)]

\* Autopilot.optimize_schedule: the exception raised or the result returned,
\* and the log it leaves.
optimize_schedule(w, df, cfg) ==
    IF df = <<>>
    THEN [error |-> "Forecast data is empty", result |-> NoResult,
          log |-> schedule_log(w, df, cfg)]
    ELSE [error |-> "none",
          result |-> IF w.priority = "critical"
                     THEN critical_result(w, df, cfg)
                     ELSE searched_result(w, df, cfg),
          log |-> schedule_log(w, df, cfg)]

----------------------------------------------------------------------------
(* constraints.py: DependencyGraph *)

\* The keys of {w.id: w for w in workloads}, in insertion order: each id
\* once, at its first occurrence.
RECURSIVE dict_keys(_, _)
dict_keys(ws, seen) ==
    IF ws = <<>> THEN <<>>
    ELSE IF Head(ws).id \in seen THEN dict_keys(Tail(ws), seen)
    ELSE <<Head(ws).id>> \o dict_keys(Tail(ws), seen \cup {Head(ws).id})

\* The value the dict holds for a key: the last workload with that id.
dict_value(ws, wid) ==
    LET last == CHOOSE i \in 1 .. Len(ws) :
                    /\ ws[i].id = wid
                    /\ \A j \in i + 1 .. Len(ws) : ws[j].id # wid
    IN  ws[last]

SeqToSet(s) == {s[i] : i \in 1 .. Len(s)}

\* line 53: self.workloads as (keys in order, mapping)
workloads_dict(ws) ==
    [ids |-> dict_keys(ws, {}),
     workloads |-> [wid \in {ws[i].id : i \in 1 .. Len(ws)} |-> dict_value(ws, wid)]]

\* lines 68-86: the dependencies of the workloads from position i of the key
\* order on, from dependency j of that workload on, added to the two maps; the
\* first unknown or self reference raises.
RECURSIVE add_dependencies(_, _, _, _, _)
add_dependencies(d, i, j, adj, rev) ==
    IF i > Len(d.ids)
    THEN [error |-> "none", adjacency_list |-> adj, reverse_adjacency |-> rev]
    ELSE LET w == d.workloads[d.ids[i]]
         IN  IF j > Len(w.dependencies)
             THEN add_dependencies(d, i + 1, 1, adj, rev)
             ELSE LET prereq_id == w.dependencies[j].source_workload_id
                  IN  IF prereq_id \notin DOMAIN d.workloads
                      THEN [error |-> "InvalidDependencyError: unknown workload",
                            adjacency_list |-> adj, reverse_adjacency |-> rev]
                      ELSE IF prereq_id = w.id
                      THEN [error |-> "InvalidDependencyError: depends on itself",
                            adjacency_list |-> adj, reverse_adjacency |-> rev]
                      ELSE add_dependencies(d, i, j + 1,
                               [adj EXCEPT ![w.id] = Append(@, prereq_id)],
                               [rev EXCEPT ![prereq_id] = Append(@, w.id)])

\* _build_graph without the self-reference check
RECURSIVE add_dependencies_no_self_check(_, _, _, _, _)
add_dependencies_no_self_check(d, i, j, adj, rev) ==
    IF i > Len(d.ids)
    THEN [error |-> "none", adjacency_list |-> adj, reverse_adjacency |-> rev]
    ELSE LET w == d.workloads[d.ids[i]]
         IN  IF j > Len(w.dependencies)
             THEN add_dependencies_no_self_check(d, i + 1, 1, adj, rev)
             ELSE LET prereq_id == w.dependencies[j].source_workload_id
                  IN  IF prereq_id \notin DOMAIN d.workloads
                      THEN [error |-> "InvalidDependencyError: unknown workload",
                            adjacency_list |-> adj, reverse_adjacency |-> rev]
                      ELSE add_dependencies_no_self_check(d, i, j + 1,
                               [adj EXCEPT ![w.id] = Append(@, prereq_id)],
                               [rev EXCEPT ![prereq_id] = Append(@, w.id)])

build_graph_no_self_check(d) ==
    add_dependencies_no_self_check(d, 1, 1,
                     [wid \in DOMAIN d.workloads |-> <<>>],
                     [wid \in DOMAIN d.workloads |-> <<>>])

\* DependencyGraph._build_graph
build_graph(d) ==
    add_dependencies(d, 1, 1,
                     [wid \in DOMAIN d.workloads |-> <<>>],
                     [wid \in DOMAIN d.workloads |-> <<>>])

\* lines 93-106: has_cycle(node) with its closure variables visited and
\* rec_stack passed in st and returned; visit_prereqs is its for loop from
\* prerequisite i on.
RECURSIVE has_cycle(_, _, _)
RECURSIVE visit_prereqs(_, _, _, _)
\* has_cycle without rec_stack.add(node)
has_cycle_no_stack(adj, node, st) ==
    LET entered == [found |-> FALSE,
                    visited |-> st.visited \cup {node},
                    rec_stack |-> st.rec_stack]
        r == visit_prereqs(adj, node, 1, entered)
    IN  IF r.found THEN r
        ELSE [r EXCEPT !.rec_stack = @ \ {node}]

has_cycle(adj, node, st) ==
    LET entered == [found |-> FALSE,
                    visited |-> st.visited \cup {node},
                    rec_stack |-> st.rec_stack \cup {node}]
        r == visit_prereqs(adj, node, 1, entered)
    IN  IF r.found THEN r
        ELSE [r EXCEPT !.rec_stack = @ \ {node}]

visit_prereqs(adj, node, i, st) ==
    IF i > Len(adj[node]) THEN st
    ELSE LET prereq == adj[node][i]
         IN  IF prereq \notin st.visited
             THEN LET r == has_cycle(adj, prereq, st)
                  IN  IF r.found THEN r
                      ELSE visit_prereqs(adj, node, i + 1, r)
             ELSE IF prereq \in st.rec_stack
                  THEN [st EXCEPT !.found = TRUE]
                  ELSE visit_prereqs(adj, node, i + 1, st)

\* lines 108-114: the loop over the workloads from position i on
RECURSIVE validate_from(_, _, _, _)
validate_from(ids, adj, i, st) ==
    IF i > Len(ids) THEN "none"
    ELSE IF ids[i] \in st.visited THEN validate_from(ids, adj, i + 1, st)
    ELSE LET r == has_cycle(adj, ids[i], st)
         IN  IF r.found THEN "CircularDependencyError"
             ELSE validate_from(ids, adj, i + 1, r)

\* _validate_graph with the search started from the first workload only
validate_graph_first_only(ids, adj) ==
    IF ids = <<>> THEN "none"
    ELSE IF has_cycle(adj, ids[1],
                      [found |-> FALSE, visited |-> {}, rec_stack |-> {}]).found
    THEN "CircularDependencyError"
    ELSE "none"

\* DependencyGraph._validate_graph: the error raised, "none" for none
validate_graph(ids, adj) ==
    validate_from(ids, adj, 1,
                  [found |-> FALSE, visited |-> {}, rec_stack |-> {}])

NoGraph == [none |-> TRUE]

\* DependencyGraph.__init__: the error raised and the graph built
DependencyGraph(ws) ==
    LET d == workloads_dict(ws)
        built == build_graph(d)
        g == [ids |-> d.ids, workloads |-> d.workloads,
              adjacency_list |-> built.adjacency_list,
              reverse_adjacency |-> built.reverse_adjacency]
        cyc == validate_graph(d.ids, built.adjacency_list)
    IN  IF built.error # "none" THEN [error |-> built.error, graph |-> NoGraph]
        ELSE IF cyc # "none" THEN [error |-> cyc, graph |-> NoGraph]
        ELSE [error |-> "none", graph |-> g]

\* the loop over the dependents with a dependent that is listed twice
\* counted once
RECURSIVE release_dependents_once(_, _, _, _)
release_dependents_once(dependents, i, in_degree, queue) ==
    IF i > Len(dependents) THEN [in_degree |-> in_degree, queue |-> queue]
    ELSE IF \E k \in 1 .. i - 1 : dependents[k] = dependents[i]
    THEN release_dependents_once(dependents, i + 1, in_degree, queue)
    ELSE LET dependent == dependents[i]
             deg == in_degree[dependent] - 1
         IN  release_dependents_once(dependents, i + 1,
                 [in_degree EXCEPT ![dependent] = deg],
                 IF deg = 0 THEN Append(queue, dependent) ELSE queue)

\* lines 143-146: the for loop over reverse_adjacency[current] from i on
RECURSIVE release_dependents(_, _, _, _)
release_dependents(dependents, i, in_degree, queue) ==
    IF i > Len(dependents) THEN [in_degree |-> in_degree, queue |-> queue]
    ELSE LET dependent == dependents[i]
             deg == in_degree[dependent] - 1
         IN  release_dependents(dependents, i + 1,
                 [in_degree EXCEPT ![dependent] = deg],
                 IF deg = 0 THEN Append(queue, dependent) ELSE queue)

\* the while loop with the queue used as a stack: queue.pop() takes the
\* id added last
RECURSIVE kahn_loop_lifo(_, _, _, _)
kahn_loop_lifo(g, queue, in_degree, sorted_order) ==
    IF queue = <<>> THEN sorted_order
    ELSE LET current == queue[Len(queue)]
             r == release_dependents(g.reverse_adjacency[current], 1, in_degree,
                                     SubSeq(queue, 1, Len(queue) - 1))
         IN  kahn_loop_lifo(g, r.queue, r.in_degree,
                            Append(sorted_order, current))

\* lines 138-146: the while loop
RECURSIVE kahn_loop(_, _, _, _)
kahn_loop(g, queue, in_degree, sorted_order) ==
    IF queue = <<>> THEN sorted_order
    ELSE LET current == Head(queue)
             r == release_dependents(g.reverse_adjacency[current], 1,
                                     in_degree, Tail(queue))
         IN  kahn_loop(g, r.queue, r.in_degree, Append(sorted_order, current))

\* The ids that are in keep, last listed first
RECURSIVE SelectIds_reversed(_, _)
SelectIds_reversed(ids, keep) ==
    IF ids = <<>> THEN <<>>
    ELSE SelectIds_reversed(Tail(ids), keep)
         \o (IF Head(ids) \in keep THEN <<Head(ids)>> ELSE <<>>)

\* The subsequence of the ids that are in keep
RECURSIVE SelectIds(_, _)
SelectIds(ids, keep) ==
    IF ids = <<>> THEN <<>>
    ELSE (IF Head(ids) \in keep THEN <<Head(ids)>> ELSE <<>>)
         \o SelectIds(Tail(ids), keep)

\* Kahn's algorithm with the two maps taken for each other
topological_sort_reversed(g) ==
    LET in_degree == [wid \in DOMAIN g.reverse_adjacency |->
                          Len(g.reverse_adjacency[wid])]
        queue == SelectIds(g.ids, {wid \in DOMAIN in_degree : in_degree[wid] = 0})
        sorted_order ==
            kahn_loop([g EXCEPT !.reverse_adjacency = g.adjacency_list],
                      queue, in_degree, <<>>)
    IN  IF Len(sorted_order) # Len(g.ids)
        THEN [error |-> "CircularDependencyError", order |-> <<>>]
        ELSE [error |-> "none", order |-> sorted_order]

\* DependencyGraph.topological_sort: the error raised and the list returned
topological_sort(g) ==
    LET in_degree == [wid \in DOMAIN g.adjacency_list |->
                          Len(g.adjacency_list[wid])]
        queue == SelectIds(g.ids, {wid \in DOMAIN in_degree : in_degree[wid] = 0})
        sorted_order == kahn_loop(g, queue, in_degree, <<>>)
    IN  IF Len(sorted_order) # Len(g.ids)
        THEN [error |-> "CircularDependencyError", order |-> <<>>]
        ELSE [error |-> "none", order |-> sorted_order]

RECURSIVE get_workload_level(_, _)

\* get_workload_level with min in place of max
get_workload_level_min(g, workload_id) ==
    LET prereqs == g.adjacency_list[workload_id]
        levels == {get_workload_level(g, prereqs[i]) : i \in 1 .. Len(prereqs)}
    IN  IF prereqs = <<>> THEN 0
        ELSE (CHOOSE m \in levels : \A l \in levels : m <= l) + 1

\* DependencyGraph.get_workload_level
get_workload_level(g, workload_id) ==
    LET prereqs == g.adjacency_list[workload_id]
        levels == {get_workload_level(g, prereqs[i]) : i \in 1 .. Len(prereqs)}
    IN  IF prereqs = <<>> THEN 0
        ELSE (CHOOSE m \in levels : \A l \in levels : l <= m) + 1

----------------------------------------------------------------------------
(* autopilot.py: optimize_fleet *)

\* The empty dict and dict[key] = value
EmptyDict == <<>>

DictPut(d, key, item) ==
    [k \in DOMAIN d \cup {key} |-> IF k = key THEN item ELSE d[k]]

\* lines 404 and 468: the time before which a completion-gated dependency
\* keeps the dependent from starting
constraint_time_no_delay(prereq_schedule, dep) == prereq_schedule.optimal_end

constraint_time(prereq_schedule, dep) ==
    prereq_schedule.optimal_end + dep.min_delay_hours

\* the loop over the dependencies with every dependency taken as
\* completion-gated
RECURSIVE earliest_start_from_all(_, _, _, _)
earliest_start_from_all(deps, i, completed, earliest_start) ==
    IF i > Len(deps) THEN [error |-> "none", earliest_start |-> earliest_start]
    ELSE LET dep == deps[i]
             prereq_id == dep.source_workload_id
         IN  IF prereq_id \notin DOMAIN completed
             THEN [error |-> "prerequisite has not been scheduled",
                   earliest_start |-> earliest_start]
             ELSE earliest_start_from_all(deps, i + 1, completed,
                      Max(earliest_start,
                          constraint_time(completed[prereq_id], dep)))

\* lines 391-405: the loop over the dependencies from dependency i on;
\* earliest_start, or the error of a prerequisite that has no schedule yet
RECURSIVE earliest_start_from(_, _, _, _)
earliest_start_from(deps, i, completed, earliest_start) ==
    IF i > Len(deps) THEN [error |-> "none", earliest_start |-> earliest_start]
    ELSE LET dep == deps[i]
             prereq_id == dep.source_workload_id
         IN  IF prereq_id \notin DOMAIN completed
             THEN [error |-> "prerequisite has not been scheduled",
                   earliest_start |-> earliest_start]
             ELSE earliest_start_from(deps, i + 1, completed,
                      IF dep.depends_on_completion
                      THEN Max(earliest_start,
                               constraint_time(completed[prereq_id], dep))
                      ELSE earliest_start)

\* the forecast handed on as it came, neither moved nor cut
shift_forecast_unchanged(df, time_shift, earliest_start) == df

\* lines 432-435: the copy of the forecast with every timestamp moved by
\* time_shift, cut to the samples at or after earliest_start
shift_forecast(df, time_shift, earliest_start) ==
    LET shifted == [i \in 1 .. Len(df) |->
                       [df[i] EXCEPT !.timestamp = @ + time_shift]]
    IN  SelectSeq(shifted, LAMBDA row : row.timestamp >= earliest_start)

\* the forecast moved behind every schedule made so far, whether or not the
\* workload depends on it
apply_dependency_constraints_after_all(w, df, completed) ==
    IF DOMAIN completed = {} \/ df = <<>>
    THEN [error |-> "none", forecast |-> df, log |-> <<>>]
    ELSE LET ends == {completed[k].optimal_end : k \in DOMAIN completed}
             last_end == CHOOSE t \in ends : \A u \in ends : u <= t
         IN  [error |-> "none",
              forecast |-> shift_forecast(df, last_end - df[1].timestamp,
                                          last_end),
              log |-> <<>>]

\* _apply_dependency_constraints without the deadline check of lines 407-422
apply_dependency_constraints_no_deadline(w, df, completed) ==
    IF w.dependencies = <<>>
    THEN [error |-> "none", forecast |-> df, log |-> <<>>]
    ELSE IF df = <<>>
    THEN [error |-> "IndexError", forecast |-> df, log |-> <<>>]
    ELSE LET baseline_start == df[1].timestamp
             e == earliest_start_from(w.dependencies, 1, completed, baseline_start)
             shifted == shift_forecast(df, e.earliest_start - baseline_start,
                                       e.earliest_start)
         IN  IF e.error # "none"
             THEN [error |-> e.error, forecast |-> df, log |-> <<>>]
             ELSE IF e.earliest_start > baseline_start
             THEN IF shifted = <<>>
                  THEN [error |-> "Provide longer forecast window",
                        forecast |-> df,
                        log |-> <<"Dependency constraints shift">>]
                  ELSE [error |-> "none", forecast |-> shifted,
                        log |-> <<"Dependency constraints shift">>]
             ELSE [error |-> "none", forecast |-> df, log |-> <<>>]

\* Autopilot._apply_dependency_constraints: the error raised, the forecast
\* returned and the lines logged
apply_dependency_constraints(w, df, completed) ==
    IF w.dependencies = <<>>
    THEN [error |-> "none", forecast |-> df, log |-> <<>>]
    ELSE IF df = <<>>
    THEN [error |-> "IndexError", forecast |-> df, log |-> <<>>]
    ELSE LET baseline_start == df[1].timestamp
             e == earliest_start_from(w.dependencies, 1, completed, baseline_start)
             workload_deadline == baseline_start + w.deadline_hours
             latest_possible_end == e.earliest_start + w.duration_hours
             shifted == shift_forecast(df, e.earliest_start - baseline_start,
                                       e.earliest_start)
         IN  IF e.error # "none"
             THEN [error |-> e.error, forecast |-> df, log |-> <<>>]
             ELSE IF latest_possible_end > workload_deadline
             THEN [error |-> "Cannot satisfy deadline", forecast |-> df,
                   log |-> <<>>]
             ELSE IF e.earliest_start > baseline_start
             THEN IF shifted = <<>>
                  THEN [error |-> "Provide longer forecast window",
                        forecast |-> df,
                        log |-> <<"Dependency constraints shift">>]
                  ELSE [error |-> "none", forecast |-> shifted,
                        log |-> <<"Dependency constraints shift">>]
             ELSE [error |-> "none", forecast |-> df, log |-> <<>>]

\* Autopilot._validate_schedule_constraints: the error raised
validate_schedule_constraints(r, w, completed) ==
    IF \E i \in 1 .. Len(w.dependencies) :
           /\ w.dependencies[i].depends_on_completion
           /\ r.optimal_start
                < constraint_time(completed[w.dependencies[i].source_workload_id],
                                  w.dependencies[i])
    THEN "Constraint violation"
    ELSE "none"

\* A FleetOptimizationResult whose totals were left at zero
FleetOptimizationResult_no_totals(scheds, cost, carbon, n, order) ==
    [schedules |-> scheds, total_cost_savings |-> 0,
     total_carbon_savings_kg |-> 0, total_workloads |-> n,
     dependency_order |-> order]

\* FleetOptimizationResult (without optimization_timestamp)
FleetOptimizationResult(scheds, cost, carbon, n, order) ==
    [schedules |-> scheds, total_cost_savings |-> cost,
     total_carbon_savings_kg |-> carbon, total_workloads |-> n,
     dependency_order |-> order]

\* lines 323-352: the loop over execution_order from position pos on.  fl
\* holds the locals schedules, completed_schedules and the two totals, and
\* the optimizer's log; an exception ends the loop with the locals as they
\* were when it was raised.  constrained_forecast and result are assigned
\* once, as c and o.
RECURSIVE process_workloads(_, _, _, _, _, _)
process_workloads(g, order, pos, fl, df, cfg) ==
    IF pos > Len(order) THEN fl
    ELSE LET workload_id == order[pos]
             w == g.workloads[workload_id]
             log1 == Append(fl.log, "Processing")
         IN  Only({
               IF c.error # "none"
               THEN [fl EXCEPT !.error = c.error, !.log = log1 \o c.log]
               ELSE Only({
                 IF o.error # "none"
                 THEN [fl EXCEPT !.error = o.error, !.log = o.log]
                 ELSE IF validate_schedule_constraints(
                             o.result, w, fl.completed_schedules) # "none"
                 THEN [fl EXCEPT !.error = "Constraint violation", !.log = o.log]
                 ELSE process_workloads(g, order, pos + 1,
                          [error |-> "none",
                           schedules |-> Append(fl.schedules, o.result),
                           completed_schedules |->
                               DictPut(fl.completed_schedules, workload_id,
                                       o.result),
                           total_cost_savings |->
                               fl.total_cost_savings + cost_savings(o.result),
                           total_carbon_savings |->
                               fl.total_carbon_savings
                                 + carbon_savings_kg(o.result),
                           log |-> o.log],
                          df, cfg)
                 : o \in {optimize_schedule(w, c.forecast, cfg)}})
               : c \in {apply_dependency_constraints(
                            w, df, fl.completed_schedules)}})

\* The locals of optimize_fleet before its loop (lines 317-320)
FleetLocals(log) ==
    [error |-> "none", schedules |-> <<>>, completed_schedules |-> EmptyDict,
     total_cost_savings |-> 0, total_carbon_savings |-> 0, log |-> log]

\* lines 311-360 of optimize_fleet, for a list that is not empty; dep_graph,
\* execution_order and the loop's outcome are assigned once, as built, sorted
\* and fl.
optimize_workloads(ws, df, cfg, log) ==
    Only({
      IF built.error # "none"
      THEN [error |-> built.error, order |-> <<>>, locals |-> FleetLocals(log),
            result |-> NoResult]
      ELSE Only({
        IF sorted.error # "none"
        THEN [error |-> sorted.error, order |-> <<>>,
              locals |-> FleetLocals(log), result |-> NoResult]
        ELSE Only({
          IF fl.error # "none"
          THEN [error |-> fl.error, order |-> sorted.order, locals |-> fl,
                result |-> NoResult]
          ELSE [error |-> "none", order |-> sorted.order, locals |-> fl,
                result |-> FleetOptimizationResult(fl.schedules,
                               fl.total_cost_savings, fl.total_carbon_savings,
                               Len(ws), sorted.order)]
          : fl \in {process_workloads(built.graph, sorted.order, 1,
                        FleetLocals(Append(log, "Optimizing workloads")),
                        df, cfg)}})
        : sorted \in {topological_sort(built.graph)}})
      : built \in {DependencyGraph(ws)}})

\* optimize_fleet without the empty-list branch of lines 300-308
optimize_fleet_no_empty_branch(ws, df, cfg, log) ==
    optimize_workloads(ws, df, cfg, log)

\* Autopilot.optimize_fleet: the error raised, the result returned, the
\* execution order and the locals at the end, and the log left
optimize_fleet(ws, df, cfg, log) ==
    IF ws = <<>>
    THEN [error |-> "none", order |-> <<>>, locals |-> FleetLocals(log),
          result |-> FleetOptimizationResult(<<>>, 0, 0, 0, <<>>)]
    ELSE optimize_workloads(ws, df, cfg, log)

----------------------------------------------------------------------------
(* The inputs of the model *)

\* The grid conditions of a sample, (price, co2_intensity): cheap and clean,
\* two prices above the 0.30 ceiling with clean power, and a price above the
\* ceiling with carbon above the 600 ceiling.
SampleValues ==
    {[price |-> 10, co2_intensity |-> 100],
     [price |-> 40, co2_intensity |-> 100],
     [price |-> 50, co2_intensity |-> 100],
     [price |-> 40, co2_intensity |-> 700]}

Resolutions == {1, 2}

PowerDraws == {2}

\* (price_weight, carbon_weight) in hundredths: the default and carbon only
Weights == {<<70, 30>>, <<0, 100>>}

\* The priorities of the workloads passed in; the others are reached by
\* re-evaluating optimize_schedule where a claim compares priorities.
InputPriorities == {"critical", "normal"}

\* A forecast as the grid oracle supplies it: evenly spaced samples
MakeForecast(t0, res, vals) ==
    [i \in 1 .. Len(vals) |->
        [timestamp |-> t0 + (i - 1) * res,
         price |-> vals[i].price,
         co2_intensity |-> vals[i].co2_intensity]]

Forecasts ==
    {MakeForecast(0, res, vals) :
        res \in Resolutions,
        vals \in UNION {[1 .. n -> SampleValues] : n \in 0 .. MaxLen}}

\* The Workloads that models.py lets be constructed
Workloads ==
    {w \in [id : {1},
            duration_hours : 1 .. MaxDur,
            power_draw_kw : PowerDraws,
            deadline_hours : 1 .. MaxDeadline,
            priority : InputPriorities,
            dependencies : {<<>>}] : WorkloadValid(w)}

\* The OptimizationConfigs of the model (weights in range, summing to 1)
Configs ==
    {[price_weight |-> pw[1], carbon_weight |-> pw[2],
      min_delay_hours |-> d, prefer_continuous |-> TRUE] :
        pw \in Weights, d \in 0 .. MaxMinDelay}

----------------------------------------------------------------------------
(* Specification SpecSchedule: one call of optimize_schedule *)

InitSchedule ==
    /\ pc = "start"
    /\ workload \in Workloads
    /\ forecast \in Forecasts
    /\ config \in Configs
    /\ optimization_log = <<>>
    /\ result = NoResult
    /\ error = "none"
    /\ workloads = <<>>
    /\ dep_graph = NoGraph
    /\ execution_order = <<>>
    /\ schedules = <<>>
    /\ completed_schedules = <<>>
    /\ fleet_result = NoResult
    /\ value = NoResult
    /\ args = NoResult

\* autopilot.optimize_schedule(workload, forecast)
OptimizeSchedule ==
    /\ pc = "start"
    /\ \E out \in {optimize_schedule(workload, forecast, config)} :
           /\ pc' = IF out.error = "none" THEN "returned" ELSE "raised"
           /\ result' = out.result
           /\ error' = out.error
           /\ optimization_log' = out.log
    /\ UNCHANGED <<workload, forecast, config, workloads, dep_graph,
                   execution_order, schedules, completed_schedules,
                   fleet_result, value,
                   args>>

NextSchedule == OptimizeSchedule

SpecSchedule == InitSchedule /\ [][NextSchedule]_vars

----------------------------------------------------------------------------
(* Claims about optimize_schedule, checked under SpecSchedule *)

ScheduleReturned == pc = "returned"

\* The 0-based index of the sample at which the returned window starts
OptimalIdx ==
    CHOOSE idx \in 0 .. Len(forecast) - 1 :
        forecast[idx + 1].timestamp = result.optimal_start

\* C2: every result of optimize_schedule on a non-empty forecast has
\* optimal_end - optimal_start = duration_hours, baseline_end - baseline_start
\* = duration_hours, optimal_start >= baseline_start (delay_hours >= 0) and
\* optimal_end <= baseline_start + deadline_hours, baseline_start being the
\* first forecast timestamp.
C2_WindowWithinDeadline ==
    ScheduleReturned =>
        /\ result.optimal_end - result.optimal_start = workload.duration_hours
        /\ result.baseline_end - result.baseline_start = workload.duration_hours
        /\ result.baseline_start = forecast[1].timestamp
        /\ result.optimal_start >= result.baseline_start
        /\ delay_hours(result) >= 0
        /\ result.optimal_end <= result.baseline_start + workload.deadline_hours

\* A delayed start whose range of starts was cut by the deadline, not by the
\* end of the forecast.
C2_Witness ==
    /\ ScheduleReturned
    /\ workload.priority # "critical"
    /\ delay_hours(result) > 0
    /\ max_start_idx(workload, forecast)
         < Len(forecast) - windows_needed(workload, forecast)

\* C6: a CRITICAL workload gets optimal_start = baseline_start, delay_hours
\* = 0 and optimized cost and carbon equal to those of the baseline window,
\* whatever the forecast.
C6_CriticalRunsImmediately ==
    (ScheduleReturned /\ workload.priority = "critical") =>
        LET b == calculate_window_score(
                     ILoc(forecast, 0, windows_needed(workload, forecast)),
                     workload, config)
        IN  /\ result.optimal_start = result.baseline_start
            /\ result.baseline_start = forecast[1].timestamp
            /\ delay_hours(result) = 0
            /\ result.optimized_cost = result.baseline_cost
            /\ result.optimized_carbon_kg = result.baseline_carbon_kg
            /\ result.baseline_cost = b.cost
            /\ result.baseline_carbon_kg = b.carbon

\* A CRITICAL workload on a forecast where the search would have delayed it.
C6_Witness ==
    /\ ScheduleReturned
    /\ workload.priority = "critical"
    /\ searched_result(workload, forecast, config).optimal_start
         > result.baseline_start

\* C14: optimize_schedule on an empty forecast raises 'Forecast data is
\* empty' and returns no result, whatever the workload's priority; on a
\* forecast with samples it does not raise.
C14_EmptyForecastRaises ==
    (pc # "start") =>
        /\ (forecast = <<>>) =>
               /\ pc = "raised"
               /\ error = "Forecast data is empty"
               /\ result = NoResult
        /\ (forecast # <<>>) => pc = "returned" /\ error = "none"

\* The call has raised for a CRITICAL workload and an empty forecast.
C14_Witness ==
    /\ pc = "raised"
    /\ forecast = <<>>
    /\ workload.priority = "critical"
    /\ error = "Forecast data is empty"

\* The field is uniformly lower from 0-based index k on than before it.
DropAt(df, fld, k) ==
    /\ k \in 1 .. Len(df) - 1
    /\ \A i \in 0 .. k - 1 : \A j \in k .. Len(df) - 1 :
           df[j + 1][fld] < df[i + 1][fld]

\* The deadline (and the forecast) permit a window that starts at index k.
OffsetReachable(w, df, k) ==
    /\ df[k + 1].timestamp + w.duration_hours
           <= df[1].timestamp + w.deadline_hours
    /\ k + windows_needed(w, df) <= Len(df)

ConstantField(df, fld) == \A i, j \in 1 .. Len(df) : df[i][fld] = df[j][fld]

\* C9 as stated: a price drop at a reachable offset makes optimize_schedule
\* start at or after the offset with cost_savings > 0; the same for carbon
\* when carbon_weight dominates.
C9_AsStated ==
    ScheduleReturned =>
        \A k \in 1 .. Len(forecast) - 1 :
            /\ (DropAt(forecast, "price", k)
                    /\ OffsetReachable(workload, forecast, k))
                => /\ result.optimal_start >= forecast[k + 1].timestamp
                   /\ cost_savings(result) > 0
            /\ (DropAt(forecast, "co2_intensity", k)
                    /\ OffsetReachable(workload, forecast, k)
                    /\ config.carbon_weight > config.price_weight)
                => /\ result.optimal_start >= forecast[k + 1].timestamp
                   /\ carbon_savings_kg(result) > 0

\* The window at index k is in the searched range and the mean of the field
\* over it is below the scorer's ceiling.
OffsetSearched(w, df, cfg, fld, ceiling, k) ==
    /\ w.priority # "critical"
    /\ min_delay_windows(cfg, df) <= k
    /\ k <= max_start_idx(w, df)
    /\ Mean(ILoc(df, k, k + windows_needed(w, df)), fld) < ceiling * MeanScale

\* C9 amended: for a non-CRITICAL workload, a drop of the price at offset k,
\* a constant carbon intensity, price_weight > 0, the window at k inside the
\* feasible start range and its mean price below the 0.30 ceiling make
\* optimize_schedule start at or after the offset with cost_savings > 0; the
\* same for carbon with a constant price, carbon_weight > 0 and the 600 ceiling.
C9_LowerWindowChosen ==
    ScheduleReturned =>
        \A k \in 1 .. Len(forecast) - 1 :
            /\ (/\ DropAt(forecast, "price", k)
                /\ ConstantField(forecast, "co2_intensity")
                /\ config.price_weight > 0
                /\ OffsetSearched(workload, forecast, config,
                                  "price", PriceCeiling, k))
                => /\ result.optimal_start >= forecast[k + 1].timestamp
                   /\ cost_savings(result) > 0
            /\ (/\ DropAt(forecast, "co2_intensity", k)
                /\ ConstantField(forecast, "price")
                /\ config.carbon_weight > 0
                /\ OffsetSearched(workload, forecast, config,
                                  "co2_intensity", CarbonCeiling, k))
                => /\ result.optimal_start >= forecast[k + 1].timestamp
                   /\ carbon_savings_kg(result) > 0

\* A two-sample window chosen after a price drop at index 1.
C9_Witness ==
    /\ ScheduleReturned
    /\ Len(forecast) = 3
    /\ windows_needed(workload, forecast) = 2
    /\ DropAt(forecast, "price", 1)
    /\ ConstantField(forecast, "co2_intensity")
    /\ config.price_weight > 0
    /\ OffsetSearched(workload, forecast, config, "price", PriceCeiling, 1)
    /\ result.optimal_start = forecast[2].timestamp
    /\ cost_savings(result) > 0

FeasibleStarts(w, df, cfg) ==
    {i \in 0 .. Len(df) - 1 :
        /\ i >= min_delay_windows(cfg, df)
        /\ i + windows_needed(w, df) <= Len(df)
        /\ df[i + 1].timestamp + w.duration_hours
               <= df[1].timestamp + w.deadline_hours}

\* The composite score of the window that starts at index i
WindowScore(w, df, cfg, i) ==
    LET window == [k \in 1 .. windows_needed(w, df) |-> df[i + k]]
    IN  composite_score(Mean(window, "price"), Mean(window, "co2_intensity"),
                        cfg)

\* C18: for a non-CRITICAL workload with at least one feasible start index,
\* optimize_schedule returns the window at the smallest feasible index whose
\* composite score is the minimum over all feasible indices.
C18_EarliestMinimum ==
    (/\ ScheduleReturned
     /\ workload.priority # "critical"
     /\ FeasibleStarts(workload, forecast, config) # {}) =>
        LET feasible == FeasibleStarts(workload, forecast, config)
            lowest == {i \in feasible :
                          \A j \in feasible :
                              WindowScore(workload, forecast, config, i)
                                <= WindowScore(workload, forecast, config, j)}
            first == CHOOSE i \in lowest : \A j \in lowest : i <= j
        IN  /\ result.optimal_start = forecast[first + 1].timestamp
            /\ result.optimal_end
                  = forecast[first + 1].timestamp + workload.duration_hours
            /\ composite_score(result.optimized_avg_price,
                               result.optimized_avg_carbon, config)
                  = WindowScore(workload, forecast, config, first)

\* Two feasible windows tie for the minimum score, a feasible window before
\* them scores higher, and the first of the two was returned.
C18_Witness ==
    /\ ScheduleReturned
    /\ workload.priority # "critical"
    /\ Len(forecast) = 3
    /\ FeasibleStarts(workload, forecast, config) = {0, 1, 2}
    /\ WindowScore(workload, forecast, config, 1)
         = WindowScore(workload, forecast, config, 2)
    /\ WindowScore(workload, forecast, config, 1)
         < WindowScore(workload, forecast, config, 0)
    /\ result.optimal_start = forecast[2].timestamp

\* The minimum delay rules out index 0, which has the lowest score of all.
C18_WitnessDelayed ==
    /\ ScheduleReturned
    /\ workload.priority # "critical"
    /\ 0 \notin FeasibleStarts(workload, forecast, config)
    /\ \E i \in FeasibleStarts(workload, forecast, config) :
           /\ result.optimal_start = forecast[i + 1].timestamp
           /\ WindowScore(workload, forecast, config, 0)
                < WindowScore(workload, forecast, config, i)

\* C21 as stated: for a non-CRITICAL workload the returned start is never
\* before baseline_start + min_delay_windows * resolution_hours.
C21_AsStated ==
    (ScheduleReturned /\ workload.priority # "critical") =>
        result.optimal_start
            >= result.baseline_start
                 + min_delay_windows(config, forecast) * resolution_hours(forecast)

\* No start index is searched: the range from min_delay_windows to
\* max_start_idx is empty
EmptyStartRange(w, df, cfg) == min_delay_windows(cfg, df) > max_start_idx(w, df)

C22_WitnessDelayPastDeadline ==
    /\ ScheduleReturned
    /\ workload.priority # "critical"
    /\ Len(forecast) = 3
    /\ windows_needed(workload, forecast) = 1
    /\ min_delay_windows(config, forecast) = 1
    /\ max_start_idx(workload, forecast) = 0
    /\ forecast[2].price < forecast[1].price
    /\ result.optimal_start = forecast[1].timestamp

----------------------------------------------------------------------------
(* Specification SpecConfig: one call of OptimizationConfig(...) *)

\* The weights of this specification are multiples of 1 / WeightUnit, a
\* power of two: such floats are added and subtracted exactly by lines 50-53
WeightUnit == 128

Abs(x) == IF x < 0 THEN 0 - x ELSE x

\* 0 <= w <= 1
WeightInRange(w) == 0 <= w /\ w <= WeightUnit

\* abs(price_weight + carbon_weight - 1.0) > 0.01
WeightsOffSum(price_weight, carbon_weight) ==
    Abs(price_weight + carbon_weight - WeightUnit) * 100 > WeightUnit

\* The constructor with the sum checked before the range
OptimizationConfig_sum_first(price_weight, carbon_weight, min_delay_hours) ==
    IF WeightsOffSum(price_weight, carbon_weight)
    THEN [error |-> "Weights must sum to 1.0", result |-> NoResult]
    ELSE IF ~(WeightInRange(price_weight) /\ WeightInRange(carbon_weight))
    THEN [error |-> "Weights must be between 0 and 1", result |-> NoResult]
    ELSE [error |-> "none",
          result |-> [price_weight |-> price_weight,
                      carbon_weight |-> carbon_weight,
                      min_delay_hours |-> min_delay_hours,
                      prefer_continuous |-> TRUE]]

OptimizationConfig(price_weight, carbon_weight, min_delay_hours) ==
    IF ~(WeightInRange(price_weight) /\ WeightInRange(carbon_weight))
    THEN [error |-> "Weights must be between 0 and 1", result |-> NoResult]
    ELSE IF WeightsOffSum(price_weight, carbon_weight)
    THEN [error |-> "Weights must sum to 1.0", result |-> NoResult]
    ELSE [error |-> "none",
          result |-> [price_weight |-> price_weight,
                      carbon_weight |-> carbon_weight,
                      min_delay_hours |-> min_delay_hours,
                      prefer_continuous |-> TRUE]]

\* The weights passed in: -0.5, 0, 1/128, 63/128, 0.5, 65/128, 66/128,
\* 127/128, 1, 129/128 and 1.5
WeightArguments == {0 - 64, 0, 1, 63, 64, 65, 66, 127, 128, 129, 192}

InitConfig ==
    /\ pc = "start"
    /\ args \in [price_weight : WeightArguments,
                 carbon_weight : WeightArguments,
                 min_delay_hours : 0 .. MaxMinDelay]
    /\ workload = NoResult
    /\ forecast = <<>>
    /\ config = NoResult
    /\ optimization_log = <<>>
    /\ result = NoResult
    /\ error = "none"
    /\ workloads = <<>>
    /\ dep_graph = NoGraph
    /\ execution_order = <<>>
    /\ schedules = <<>>
    /\ completed_schedules = <<>>
    /\ fleet_result = NoResult
    /\ value = NoResult

\* config = OptimizationConfig(price_weight, carbon_weight, min_delay_hours)
ConstructConfig ==
    /\ pc = "start"
    /\ \E out \in {OptimizationConfig(args.price_weight, args.carbon_weight,
                                       args.min_delay_hours)} :
           /\ error' = out.error
           /\ config' = out.result
           /\ pc' = IF out.error = "none" THEN "constructed" ELSE "raised"
    /\ UNCHANGED <<workload, forecast, optimization_log, result, workloads,
                   dep_graph, execution_order, schedules, completed_schedules,
                   fleet_result, value, args>>

NextConfig == ConstructConfig

SpecConfig == InitConfig /\ [][NextConfig]_vars

ConfigEnded == pc \in {"constructed", "raised"}

\* A weight below 0 or above 1
OutsideUnitInterval(w) == w < 0 \/ w > WeightUnit

\* C16: the constructor raises exactly when a weight is outside [0, 1] or
\* the two weights differ from 1 in sum by more than 0.01; when a weight is
\* outside [0, 1] the error is the range error whatever the sum is, and
\* otherwise the sum error.
C16_ConfigValidation ==
    ConfigEnded =>
        LET out_of_range == \/ OutsideUnitInterval(args.price_weight)
                            \/ OutsideUnitInterval(args.carbon_weight)
            distance == Abs(args.price_weight + args.carbon_weight - WeightUnit)
            off_sum == 100 * distance > WeightUnit
        IN  /\ (pc = "raised") <=> (out_of_range \/ off_sum)
            /\ out_of_range => error = "Weights must be between 0 and 1"
            /\ (off_sum /\ ~out_of_range) => error = "Weights must sum to 1.0"
            /\ (pc = "constructed") =>
                   /\ error = "none"
                   /\ config.price_weight = args.price_weight
                   /\ config.carbon_weight = args.carbon_weight

\* Weights (1.5, -0.5), which sum to 1, were rejected with the range error.
C16_Witness ==
    /\ pc = "raised"
    /\ args.price_weight = 192
    /\ args.carbon_weight = 0 - 64
    /\ error = "Weights must be between 0 and 1"

----------------------------------------------------------------------------
(* Specification SpecWorkload: one call of Workload(...) *)

\* The durations, power draws and deadlines passed in: negative, zero,
\* small, and just above the Field's upper bound
DurationArguments == {0 - 1, 0, 1, 2, DurationLimit + 1}

PowerArguments == {0 - 1, 0, 2, PowerLimit + 1}

DeadlineArguments == {0 - 1, 0, 1, 2, 3, DeadlineLimit + 1}

InitWorkload ==
    /\ pc = "start"
    /\ args \in [id : {1},
                 duration_hours : DurationArguments,
                 power_draw_kw : PowerArguments,
                 deadline_hours : DeadlineArguments,
                 priority : InputPriorities,
                 dependencies : {<<>>}]
    /\ workload = NoResult
    /\ forecast = <<>>
    /\ config = NoResult
    /\ optimization_log = <<>>
    /\ result = NoResult
    /\ error = "none"
    /\ workloads = <<>>
    /\ dep_graph = NoGraph
    /\ execution_order = <<>>
    /\ schedules = <<>>
    /\ completed_schedules = <<>>
    /\ fleet_result = NoResult
    /\ value = NoResult

\* workload = Workload(**args): pydantic validates the fields and raises a
\* ValidationError when any of them fails
ConstructWorkload ==
    /\ pc = "start"
    /\ IF WorkloadValid(args)
       THEN /\ workload' = args
            /\ error' = "none"
            /\ pc' = "constructed"
       ELSE /\ workload' = NoResult
            /\ error' = "ValidationError"
            /\ pc' = "raised"
    /\ UNCHANGED <<forecast, config, optimization_log, result, workloads,
                   dep_graph, execution_order, schedules, completed_schedules,
                   fleet_result, value, args>>

NextWorkload == ConstructWorkload

SpecWorkload == InitWorkload /\ [][NextWorkload]_vars

WorkloadEnded == pc \in {"constructed", "raised"}

\* C17: a Workload whose deadline_hours is below its duration_hours, or whose
\* duration_hours or power_draw_kw is not positive, is rejected when it is
\* constructed, so a constructed Workload has
\* deadline_hours >= duration_hours > 0.
C17_WorkloadValidation ==
    WorkloadEnded =>
        /\ (\/ args.deadline_hours < args.duration_hours
            \/ args.duration_hours <= 0
            \/ args.power_draw_kw <= 0)
              => (pc = "raised" /\ error = "ValidationError"
                                /\ workload = NoResult)
        /\ (pc = "constructed") =>
               /\ workload.deadline_hours >= workload.duration_hours
               /\ workload.duration_hours > 0
               /\ workload.power_draw_kw > 0
               /\ workload.duration_hours = args.duration_hours
               /\ workload.deadline_hours = args.deadline_hours

\* A Workload of 2 hours with a deadline of 1 hour and a positive power draw
\* was rejected: only the validator of deadline_hours speaks against it.
C17_Witness ==
    /\ pc = "raised"
    /\ args.duration_hours = 2
    /\ args.deadline_hours = 1
    /\ args.power_draw_kw = 2
    /\ workload = NoResult

\* A Workload whose deadline equals its duration was constructed.
C17_WitnessConstructed ==
    /\ pc = "constructed"
    /\ workload.duration_hours = 2
    /\ workload.deadline_hours = 2

----------------------------------------------------------------------------
(* Specification SpecResult: the properties of a ScheduleResult *)

\* The ScheduleResults of the model: any non-negative metrics (models.py
\* checks only ge=0) and any start times; the averages play no part
ScheduleResults ==
    [workload : {[id |-> 1, duration_hours |-> 1, power_draw_kw |-> 1,
                  deadline_hours |-> 1, priority |-> "normal",
                  dependencies |-> <<>>]},
     optimal_start : 0 .. MaxHour,
     optimal_end : {MaxHour + 1},
     baseline_start : 0 .. MaxHour,
     baseline_end : {MaxHour + 1},
     optimized_cost : 0 .. MaxMetric,
     optimized_carbon_kg : 0 .. MaxMetric,
     optimized_avg_price : {0},
     optimized_avg_carbon : {0},
     baseline_cost : 0 .. MaxMetric,
     baseline_carbon_kg : 0 .. MaxMetric,
     baseline_avg_price : {0},
     baseline_avg_carbon : {0}]

InitResult ==
    /\ pc = "start"
    /\ result \in ScheduleResults
    /\ workload = NoResult
    /\ forecast = <<>>
    /\ config = NoResult
    /\ optimization_log = <<>>
    /\ error = "none"
    /\ workloads = <<>>
    /\ dep_graph = NoGraph
    /\ execution_order = <<>>
    /\ schedules = <<>>
    /\ completed_schedules = <<>>
    /\ fleet_result = NoResult
    /\ value = NoResult
    /\ args = NoResult

\* The caller reads the five properties of result
ReadProperties ==
    /\ pc = "start"
    /\ pc' = "read"
    /\ value' = [cost_savings |-> cost_savings(result),
                 carbon_savings_kg |-> carbon_savings_kg(result),
                 cost_savings_percent |-> cost_savings_percent(result),
                 carbon_savings_percent |-> carbon_savings_percent(result),
                 delay_hours |-> delay_hours(result)]
    /\ UNCHANGED <<workload, forecast, config, optimization_log, result, error,
                   workloads, dep_graph, execution_order, schedules,
                   completed_schedules, fleet_result, args>>

\* result.optimized_cost = c: the caller assigns a stored metric
AssignMetric ==
    /\ pc = "read"
    /\ \E c \in 0 .. MaxMetric :
           /\ c # result.optimized_cost
           /\ result' = [result EXCEPT !.optimized_cost = c]
    /\ pc' = "start"
    /\ value' = NoResult
    /\ UNCHANGED <<workload, forecast, config, optimization_log, error,
                   workloads, dep_graph, execution_order, schedules,
                   completed_schedules, fleet_result, args>>

NextResult == ReadProperties \/ AssignMetric

SpecResult == InitResult /\ [][NextResult]_vars

\* a / b = c / d for fractions with non-zero denominators
SameFraction(a, b, c, d) == a * d = c * b

\* C15: the savings read from a ScheduleResult are baseline minus optimized
\* for cost and carbon, the percentages are the savings over the baseline
\* times 100 (0 when the baseline is 0), and delay_hours is optimal_start
\* minus baseline_start, all from the metrics stored at the time of reading.
C15_SavingsDerived ==
    (pc = "read") =>
        /\ value.cost_savings = result.baseline_cost - result.optimized_cost
        /\ value.carbon_savings_kg
              = result.baseline_carbon_kg - result.optimized_carbon_kg
        /\ value.delay_hours = result.optimal_start - result.baseline_start
        /\ IF result.baseline_cost = 0
           THEN value.cost_savings_percent.num = 0
           ELSE SameFraction(value.cost_savings_percent.num,
                             value.cost_savings_percent.den,
                             value.cost_savings * 100, result.baseline_cost)
        /\ IF result.baseline_carbon_kg = 0
           THEN value.carbon_savings_percent.num = 0
           ELSE SameFraction(value.carbon_savings_percent.num,
                             value.carbon_savings_percent.den,
                             value.carbon_savings_kg * 100,
                             result.baseline_carbon_kg)
        /\ value.cost_savings_percent.den # 0
        /\ value.carbon_savings_percent.den # 0

\* The properties are read of a result whose cost baseline is 0 while the
\* optimized cost is not (negative savings, 0 percent), whose carbon went
\* down and whose start is later than the baseline's.
C15_Witness ==
    /\ pc = "read"
    /\ result.baseline_cost = 0
    /\ result.optimized_cost > 0
    /\ value.cost_savings < 0
    /\ value.cost_savings_percent.num = 0
    /\ result.baseline_carbon_kg > result.optimized_carbon_kg
    /\ value.carbon_savings_percent.num > 0
    /\ value.delay_hours > 0

----------------------------------------------------------------------------
(* Specification SpecGraph: DependencyGraph(workloads), then topological_sort *)

\* A dependency on src with the model defaults of WorkloadDependency
Dep(src, completion, delay) ==
    [source_workload_id |-> src, depends_on_completion |-> completion,
     min_delay_hours |-> delay]

\* A workload of which only the id and the prerequisites matter
GraphWorkload(id, srcs) ==
    [id |-> id, duration_hours |-> 1, power_draw_kw |-> 1, deadline_hours |-> 1,
     priority |-> "normal",
     dependencies |-> [i \in 1 .. Len(srcs) |-> Dep(srcs[i], TRUE, 0)]]

\* The number of dependencies declared in the list
RECURSIVE TotalDependencies(_)
TotalDependencies(ws) ==
    IF ws = <<>> THEN 0
    ELSE Len(Head(ws).dependencies) + TotalDependencies(Tail(ws))

\* The caller holds n workloads, ids 1 .. n, and has declared no dependency.
InitGraph ==
    /\ pc = "start"
    /\ workloads \in {[i \in 1 .. n |-> GraphWorkload(i, <<>>)] : n \in 0 .. MaxNodes}
    /\ workload = NoResult
    /\ forecast = <<>>
    /\ config = NoResult
    /\ optimization_log = <<>>
    /\ result = NoResult
    /\ error = "none"
    /\ dep_graph = NoGraph
    /\ execution_order = <<>>
    /\ schedules = <<>>
    /\ completed_schedules = <<>>
    /\ fleet_result = NoResult
    /\ value = NoResult
    /\ args = NoResult

\* The caller declares one more dependency of workload i: on one of the
\* listed ids or the unknown id n + 1, or (others_only) on another listed
\* workload.  The lists are filled in the order of the workloads, so that
\* each input is built in one way.
DeclareDependency(others_only, flags, max_edges) ==
    /\ pc = "start"
    /\ TotalDependencies(workloads) < max_edges
    /\ \E i \in 1 .. Len(workloads), src \in 1 .. Len(workloads) + 1, f \in flags :
           /\ others_only =>
                  /\ src # workloads[i].id
                  /\ \E j \in 1 .. Len(workloads) : workloads[j].id = src
           /\ Len(workloads[i].dependencies) < MaxDeps
           /\ \A j \in i + 1 .. Len(workloads) : workloads[j].dependencies = <<>>
           /\ workloads' = [workloads EXCEPT ![i].dependencies =
                                Append(@, Dep(src, f[1], f[2]))]
    /\ UNCHANGED <<pc, workload, forecast, config, optimization_log, result,
                   error, dep_graph, execution_order, schedules,
                   completed_schedules, fleet_result, value,
                   args>>

AddDependency == DeclareDependency(FALSE, {<<TRUE, 0>>}, MaxEdges)

\* dep_graph = DependencyGraph(workloads)
Construct ==
    /\ pc = "start"
    /\ \E out \in {DependencyGraph(workloads)} :
           /\ pc' = IF out.error = "none" THEN "constructed" ELSE "raised"
           /\ error' = out.error
           /\ dep_graph' = out.graph
    /\ UNCHANGED <<workload, forecast, config, optimization_log, result,
                   workloads, execution_order, schedules, completed_schedules,
                   fleet_result, value,
                   args>>

\* execution_order = dep_graph.topological_sort()
TopologicalSort ==
    /\ pc = "constructed"
    /\ \E out \in {topological_sort(dep_graph)} :
           /\ pc' = IF out.error = "none" THEN "sorted" ELSE "raised"
           /\ error' = out.error
           /\ execution_order' = out.order
    /\ UNCHANGED <<workload, forecast, config, optimization_log, result,
                   workloads, dep_graph, schedules, completed_schedules,
                   fleet_result, value,
                   args>>

\* value = dep_graph.get_workload_level(workload_id), for a workload of the
\* graph
GetWorkloadLevel ==
    /\ pc \in {"constructed", "sorted"}
    /\ \E workload_id \in SeqToSet(dep_graph.ids) :
           value' = [workload_id |-> workload_id,
                     level |-> get_workload_level(dep_graph, workload_id)]
    /\ UNCHANGED <<pc, workload, forecast, config, optimization_log, result,
                   error, workloads, dep_graph, execution_order, schedules,
                   completed_schedules, fleet_result, args>>

NextGraph == AddDependency \/ Construct \/ TopologicalSort \/ GetWorkloadLevel

SpecGraph == InitGraph /\ [][NextGraph]_vars

----------------------------------------------------------------------------
(* Claims about DependencyGraph, checked under SpecGraph *)

\* The dependency edges of the input, as pairs (dependent, prerequisite)
InputEdges(ws) ==
    UNION {{<<ws[i].id, ws[i].dependencies[j].source_workload_id>> :
               j \in 1 .. Len(ws[i].dependencies)} : i \in 1 .. Len(ws)}

InputIds(ws) == {ws[i].id : i \in 1 .. Len(ws)}

\* The ids reached from the set S by following one or more edges
RECURSIVE ReachedFrom(_, _)
ReachedFrom(E, S) ==
    LET next == S \cup {e[2] : e \in {x \in E : x[1] \in S}}
    IN  IF next = S THEN S ELSE ReachedFrom(E, next)

Prerequisites(E, a) == ReachedFrom(E, {e[2] : e \in {x \in E : x[1] = a}})

\* a lies on a cycle through two or more distinct workloads
OnCycle(E, a) == \E b \in Prerequisites(E, a) : b # a /\ a \in Prerequisites(E, b)

HasCycle(ws) == \E a \in InputIds(ws) : OnCycle(InputEdges(ws), a)

\* Some dependency names an id that is not in the list, or its owner's id
HasInvalidReference(ws) ==
    \E e \in InputEdges(ws) : e[2] \notin InputIds(ws) \/ e[2] = e[1]

Constructing == pc = "start"

\* The position of an id in a list of distinct ids
IndexIn(order, wid) == CHOOSE i \in 1 .. Len(order) : order[i] = wid

\* C3: in the list returned by topological_sort every prerequisite comes
\* before the workloads that depend on it.
C3_ValidLinearization ==
    (pc = "sorted") =>
        /\ \A e \in InputEdges(workloads) :
               /\ e[1] \in SeqToSet(execution_order)
               /\ e[2] \in SeqToSet(execution_order)
               /\ IndexIn(execution_order, e[2]) < IndexIn(execution_order, e[1])

\* A sorted diamond-like list: a workload with two prerequisites that comes
\* first in the input and last in the order.
C3_Witness ==
    /\ pc = "sorted"
    /\ Len(workloads) = 4
    /\ Len(workloads[1].dependencies) = 2
    /\ workloads[1].dependencies[1] # workloads[1].dependencies[2]
    /\ execution_order[4] = 1
    /\ Cardinality(InputEdges(workloads)) = 4

\* C4 as stated: a list whose dependencies contain a cycle of two or more
\* workloads makes the constructor raise CircularDependencyError.
C4_AsStated ==
    (~Constructing /\ HasCycle(workloads)) =>
        pc = "raised" /\ error = "CircularDependencyError"

\* C4 amended: a list whose dependencies contain a cycle of two or more
\* workloads and in which every dependency names a workload of the list
\* other than its owner makes the constructor raise CircularDependencyError
\* (with an unknown or self reference InvalidDependencyError is raised first).
C4_CycleRaises ==
    (~Constructing /\ HasCycle(workloads) /\ ~HasInvalidReference(workloads)) =>
        pc = "raised" /\ error = "CircularDependencyError"

\* A ring of four workloads was rejected.
C4_Witness ==
    /\ pc = "raised"
    /\ error = "CircularDependencyError"
    /\ Len(workloads) = 4
    /\ \A i \in 1 .. 4 : Len(workloads[i].dependencies) = 1
    /\ \A i \in 1 .. 4 : Prerequisites(InputEdges(workloads), i) = 1 .. 4

\* C5: a dependency that names an id missing from the list, or its owner's
\* id, makes the constructor raise InvalidDependencyError.
C5_InvalidReferenceRaises ==
    (~Constructing /\ HasInvalidReference(workloads)) =>
        /\ pc = "raised"
        /\ error \in {"InvalidDependencyError: unknown workload",
                       "InvalidDependencyError: depends on itself"}

\* A self reference was rejected in a list that has no unknown reference.
C5_Witness ==
    /\ pc = "raised"
    /\ error = "InvalidDependencyError: depends on itself"
    /\ \A e \in InputEdges(workloads) : e[2] \in InputIds(workloads)
    /\ HasCycle(workloads)

\* The direct prerequisites of the ids in S
DirectPrerequisites(E, S) == {e[2] : e \in {x \in E : x[1] \in S}}

\* The number of edges of the longest chain of prerequisites that ends at
\* the ids of S, in a graph without cycles: the number of times the direct
\* prerequisites can be taken before none is left
RECURSIVE LongestChain(_, _)
LongestChain(E, S) ==
    IF DirectPrerequisites(E, S) = {} THEN 0
    ELSE 1 + LongestChain(E, DirectPrerequisites(E, S))

LevelReturned == pc \in {"constructed", "sorted"} /\ value # NoResult

\* C11: get_workload_level is 0 for a workload without prerequisites and
\* otherwise 1 + the greatest level of its prerequisites, which is the
\* length of the longest chain of prerequisites ending at the workload.
C11_LevelIsLongestChain ==
    LevelReturned =>
        LET E == InputEdges(workloads)
            direct == DirectPrerequisites(E, {value.workload_id})
            levels == {get_workload_level(dep_graph, p) : p \in direct}
        IN  /\ (direct = {}) => value.level = 0
            /\ (direct # {}) =>
                   /\ \A l \in levels : l + 1 <= value.level
                   /\ \E l \in levels : l + 1 = value.level
            /\ value.level = LongestChain(E, {value.workload_id})

\* The level 2 of the sink of a diamond has been returned.
C11_Witness ==
    /\ LevelReturned
    /\ Len(workloads) = 4
    /\ value.level = 2
    /\ \E b, c, a \in InputIds(workloads) :
           /\ b # c
           /\ DirectPrerequisites(InputEdges(workloads), {value.workload_id})
                 = {b, c}
           /\ DirectPrerequisites(InputEdges(workloads), {b}) = {a}
           /\ DirectPrerequisites(InputEdges(workloads), {c}) = {a}

----------------------------------------------------------------------------
(* Specification SpecFleet: one call of optimize_fleet *)

\* The grid conditions of the fleet's forecasts: cheap and pricey power
FleetSamples ==
    {[price |-> 10, co2_intensity |-> 100],
     [price |-> 40, co2_intensity |-> 100]}

\* Hourly forecasts of FleetLen samples that start at hour 0
FleetForecasts ==
    {MakeForecast(0, 1, vals) : vals \in [1 .. FleetLen -> FleetSamples]}

\* A one-hour workload of normal priority
FleetWorkload(id, deadline) ==
    [id |-> id, duration_hours |-> 1, power_draw_kw |-> 2,
     deadline_hours |-> deadline, priority |-> "normal", dependencies |-> <<>>]

\* The ids of the listed workloads: 1 .. n, or one id given to two workloads
\* (models.py lets the caller pass the id)
FleetIds == {[i \in 1 .. n |-> i] : n \in 0 .. MaxFleet} \cup {<<1, 1>>}

\* The lists of up to MaxFleet such workloads, each with a deadline of its
\* own
FleetWorkloads ==
    UNION {{[i \in 1 .. Len(ids) |-> FleetWorkload(ids[i], dl[i])] :
               dl \in [1 .. Len(ids) -> 1 .. MaxDeadline]} : ids \in FleetIds}

\* OptimizationConfig(): weights 0.7 and 0.3, no minimum delay
DefaultConfig ==
    [price_weight |-> 70, carbon_weight |-> 30, min_delay_hours |-> 0,
     prefer_continuous |-> TRUE]

\* What a dependency may say: gate on completion, with or without a minimum
\* delay of one hour, or not gate on completion
DependencyFlags == {<<TRUE, 0>>, <<TRUE, 1>>, <<FALSE, 0>>}

\* The caller holds n workloads, ids 1 .. n, with their deadlines, a forecast
\* and an Autopilot, and has declared no dependency.
InitFleet ==
    /\ pc = "start"
    /\ workloads \in FleetWorkloads
    /\ workload = NoResult
    /\ forecast \in FleetForecasts
    /\ config = DefaultConfig
    /\ optimization_log = <<>>
    /\ result = NoResult
    /\ error = "none"
    /\ dep_graph = NoGraph
    /\ execution_order = <<>>
    /\ schedules = <<>>
    /\ completed_schedules = EmptyDict
    /\ fleet_result = NoResult
    /\ value = NoResult
    /\ args = NoResult

AddFleetDependency == DeclareDependency(TRUE, DependencyFlags, MaxFleetEdges)

\* fleet_result = autopilot.optimize_fleet(workloads, forecast).  When the
\* call raises, schedules and completed_schedules are left as the loop had
\* them.
OptimizeFleet ==
    /\ pc = "start"
    /\ \E out \in {optimize_fleet(workloads, forecast, config, optimization_log)} :
           /\ pc' = IF out.error = "none" THEN "returned" ELSE "raised"
           /\ error' = out.error
           /\ fleet_result' = out.result
           /\ execution_order' = out.order
           /\ schedules' = out.locals.schedules
           /\ completed_schedules' = out.locals.completed_schedules
           /\ optimization_log' = out.locals.log
    /\ UNCHANGED <<workload, forecast, config, result, workloads, dep_graph, value,
                   args>>

NextFleet == AddFleetDependency \/ OptimizeFleet

SpecFleet == InitFleet /\ [][NextFleet]_vars

----------------------------------------------------------------------------
(* Claims about optimize_fleet, checked under SpecFleet *)

FleetReturned == pc = "returned" /\ fleet_result # NoResult

FleetEnded == pc \in {"returned", "raised"}

\* The listed workload with this id
WorkloadOf(wid) ==
    workloads[CHOOSE i \in 1 .. Len(workloads) : workloads[i].id = wid]

\* The schedule the returned FleetResult holds for a workload
ScheduleOf(wid) ==
    fleet_result.schedules[CHOOSE i \in 1 .. Len(fleet_result.schedules) :
                               fleet_result.schedules[i].workload.id = wid]

\* The completion-gated dependencies of a workload
CompletionGated(w) ==
    {w.dependencies[i] : i \in {j \in 1 .. Len(w.dependencies) :
                                    w.dependencies[j].depends_on_completion}}

\* C1: in a returned FleetResult every prerequisite of a completion-gated
\* dependency comes before its dependent in dependency_order, and the
\* dependent starts no earlier than the prerequisite's end plus the
\* dependency's min_delay_hours.
C1_DependenciesRespected ==
    FleetReturned =>
        \A i \in 1 .. Len(workloads) : \A dep \in CompletionGated(workloads[i]) :
            LET W == workloads[i].id
                P == dep.source_workload_id
            IN  /\ IndexIn(fleet_result.dependency_order, P)
                      < IndexIn(fleet_result.dependency_order, W)
                /\ ScheduleOf(W).optimal_start
                      >= ScheduleOf(P).optimal_end + dep.min_delay_hours

\* A fleet of three is returned in an order other than the input's, and one
\* workload waits for two different prerequisites, for one of them an hour
\* longer.
C1_Witness ==
    /\ FleetReturned
    /\ Len(fleet_result.schedules) = 3
    /\ fleet_result.dependency_order # <<1, 2, 3>>
    /\ \E i \in 1 .. Len(workloads) :
           \E d1, d2 \in CompletionGated(workloads[i]) :
               /\ d1.source_workload_id # d2.source_workload_id
               /\ d1.min_delay_hours = 1
               /\ ScheduleOf(workloads[i].id).optimal_start
                     = ScheduleOf(d1.source_workload_id).optimal_end + 1

\* The earliest start the prerequisites scheduled so far leave a workload
EarliestStart(w) ==
    LET times == {completed_schedules[d.source_workload_id].optimal_end
                      + d.min_delay_hours : d \in CompletionGated(w)}
    IN  IF times = {} THEN forecast[1].timestamp
        ELSE CHOOSE t \in times : \A u \in times : u <= t

\* The workload cannot end by its deadline, counted from the first forecast
\* timestamp, once its prerequisites have ended
Infeasible(w) ==
    /\ w.dependencies # <<>>
    /\ \A i \in 1 .. Len(w.dependencies) :
           w.dependencies[i].source_workload_id \in DOMAIN completed_schedules
    /\ EarliestStart(w) + w.duration_hours
          > forecast[1].timestamp + w.deadline_hours

\* C7: when the fleet loop comes to a workload that cannot meet its deadline
\* after its prerequisites, the call raises and returns no FleetResult; the
\* loop goes no further than that workload.
C7_InfeasibleAborts ==
    FleetEnded =>
        \A k \in 1 .. Min(Len(schedules) + 1, Len(execution_order)) :
            Infeasible(WorkloadOf(execution_order[k])) =>
                /\ pc = "raised"
                /\ error = "Cannot satisfy deadline"
                /\ fleet_result = NoResult
                /\ k = Len(schedules) + 1

\* The call has raised on an infeasible workload after it had scheduled two
\* others.
C7_Witness ==
    /\ pc = "raised"
    /\ error = "Cannot satisfy deadline"
    /\ Len(schedules) = 2
    /\ Infeasible(WorkloadOf(execution_order[3]))
    /\ fleet_result = NoResult

\* C8 as stated: no FleetResult is returned when the prerequisites of one of
\* its workloads leave it an earliest start after the last sample of the
\* forecast (cutting the forecast there leaves no samples); such a call
\* fails, asking for a longer forecast window.
C8_AsStated ==
    FleetReturned =>
        \A i \in 1 .. Len(workloads) :
            workloads[i].dependencies # <<>> =>
                EarliestStart(workloads[i]) <= forecast[Len(forecast)].timestamp

\* No two workloads of the list have the same id
DistinctIds(ws) == \A i, j \in 1 .. Len(ws) : ws[i].id = ws[j].id => i = j

\* The sum of a savings property over a list of schedules
RECURSIVE SumCostSavings(_)
SumCostSavings(scheds) ==
    IF scheds = <<>> THEN 0
    ELSE cost_savings(Head(scheds)) + SumCostSavings(Tail(scheds))

RECURSIVE SumCarbonSavings(_)
SumCarbonSavings(scheds) ==
    IF scheds = <<>> THEN 0
    ELSE carbon_savings_kg(Head(scheds)) + SumCarbonSavings(Tail(scheds))

\* Each listed workload is the workload of exactly one schedule
OneSchedulePerWorkload ==
    /\ Len(fleet_result.schedules) = Len(workloads)
    /\ \A i \in 1 .. Len(workloads) :
           Cardinality({k \in 1 .. Len(fleet_result.schedules) :
                           fleet_result.schedules[k].workload = workloads[i]}) = 1

\* The schedules follow dependency_order, which is the topological order;
\* the totals are the sums over the schedules and total_workloads counts
\* the list
OrderedAndSummed ==
    /\ Len(fleet_result.schedules) = Len(fleet_result.dependency_order)
    /\ \A k \in 1 .. Len(fleet_result.schedules) :
           fleet_result.schedules[k].workload.id = fleet_result.dependency_order[k]
    /\ fleet_result.dependency_order
          = topological_sort(DependencyGraph(workloads).graph).order
    /\ fleet_result.total_cost_savings = SumCostSavings(fleet_result.schedules)
    /\ fleet_result.total_carbon_savings_kg
          = SumCarbonSavings(fleet_result.schedules)
    /\ fleet_result.total_workloads = Len(workloads)

C13_EmptyFleet ==
    (FleetEnded /\ workloads = <<>>) =>
        /\ pc = "returned"
        /\ error = "none"
        /\ fleet_result = [schedules |-> <<>>, total_cost_savings |-> 0,
                            total_carbon_savings_kg |-> 0, total_workloads |-> 0,
                            dependency_order |-> <<>>]
        /\ optimization_log = <<>>
        /\ execution_order = <<>>
        /\ schedules = <<>>
        /\ completed_schedules = EmptyDict

\* The call on an empty list has returned.
C13_Witness ==
    /\ pc = "returned"
    /\ workloads = <<>>
    /\ fleet_result # NoResult
    /\ fleet_result.total_workloads = 0

\* C19 as stated: every schedule of a returned FleetResult ends no later than
\* the first timestamp of the fleet forecast plus the workload's
\* deadline_hours, also when prerequisites pushed its start back.
C19_AsStated ==
    FleetReturned =>
        \A i \in 1 .. Len(fleet_result.schedules) :
            LET s == fleet_result.schedules[i]
            IN  s.optimal_end <= forecast[1].timestamp + s.workload.deadline_hours

\* The samples of the input forecast whose timestamps lie in the window
\* [from, to)
SamplesWithin(df, from, to) ==
    SelectSeq(df, LAMBDA row : from <= row.timestamp /\ row.timestamp < to)

\* C20 as stated: the optimized average price and carbon intensity reported
\* for every workload of a returned FleetResult are the means of the input
\* forecast's samples at the timestamps of the chosen window, also for a
\* workload delayed by prerequisites.
C20_AsStated ==
    FleetReturned =>
        \A i \in 1 .. Len(fleet_result.schedules) :
            LET s == fleet_result.schedules[i]
                span == windows_needed(s.workload, forecast)
                            * resolution_hours(forecast)
                window == SamplesWithin(forecast, s.optimal_start,
                                        s.optimal_start + span)
            IN  /\ Len(window) = windows_needed(s.workload, forecast)
                /\ s.optimized_avg_price = Mean(window, "price")
                /\ s.optimized_avg_carbon = Mean(window, "co2_intensity")

\* The two errors of optimize_fleet that stand for a broken internal
\* invariant: a prerequisite missing from completed_schedules, and a
\* schedule that starts before a completion-gated prerequisite allows
InternalErrors == {"prerequisite has not been scheduled", "Constraint violation"}

\* C23: no run of optimize_fleet raises an internal-invariant error: every
\* prerequisite of a workload is in completed_schedules when the workload is
\* processed, and no schedule starts before a completion-gated
\* prerequisite's optimal_end plus min_delay_hours.
C23_NoInternalError ==
    FleetEnded =>
        /\ error \notin InternalErrors
        /\ \A wid \in DOMAIN completed_schedules :
               LET w == completed_schedules[wid].workload
               IN  \A k \in 1 .. Len(w.dependencies) :
                       LET dep == w.dependencies[k]
                           P == dep.source_workload_id
                       IN  /\ P \in DOMAIN completed_schedules
                           /\ dep.depends_on_completion =>
                                  completed_schedules[wid].optimal_start
                                    >= completed_schedules[P].optimal_end
                                         + dep.min_delay_hours

\* Three workloads went through both checks: the list gives them in the
\* reverse of their chain of completion-gated dependencies, and the first of
\* the list starts after the other two have ended.
C23_Witness ==
    /\ FleetReturned
    /\ Len(workloads) = 3
    /\ DistinctIds(workloads)
    /\ workloads[3].dependencies = <<>>
    /\ \E d \in CompletionGated(workloads[1]) :
           d.source_workload_id = workloads[2].id
    /\ \E d \in CompletionGated(workloads[2]) :
           d.source_workload_id = workloads[3].id
    /\ ScheduleOf(workloads[1].id).optimal_start
         >= ScheduleOf(workloads[2].id).optimal_end
    /\ ScheduleOf(workloads[2].id).optimal_start
         >= ScheduleOf(workloads[3].id).optimal_end

----------------------------------------------------------------------------
(* Claims about the constructed DependencyGraph, checked under SpecGraph *)

GraphConstructed == dep_graph # NoGraph

\* The edges (dependent, prerequisite) that adjacency_list holds
AdjacencyEdges(g) ==
    UNION {{<<wid, g.adjacency_list[wid][k]>> :
               k \in 1 .. Len(g.adjacency_list[wid])} :
           wid \in DOMAIN g.adjacency_list}

\* The edges (dependent, prerequisite) that reverse_adjacency holds
ReverseEdges(g) ==
    UNION {{<<g.reverse_adjacency[wid][k], wid>> :
               k \in 1 .. Len(g.reverse_adjacency[wid])} :
           wid \in DOMAIN g.reverse_adjacency}

\* How often item occurs in the list
Occurrences(list, item) == Cardinality({k \in 1 .. Len(list) : list[k] = item})

\* C24: a DependencyGraph whose construction succeeded is a DAG: no id is
\* reached from itself along adjacency_list, and adjacency_list and
\* reverse_adjacency hold the same edges, each as often as the other, in
\* opposite directions.
C24_ConstructedIsDag ==
    GraphConstructed =>
        LET E == AdjacencyEdges(dep_graph)
        IN  /\ DOMAIN dep_graph.adjacency_list = SeqToSet(dep_graph.ids)
            /\ DOMAIN dep_graph.reverse_adjacency = SeqToSet(dep_graph.ids)
            /\ \A wid \in DOMAIN dep_graph.adjacency_list :
                   wid \notin Prerequisites(E, wid)
            /\ E = ReverseEdges(dep_graph)
            /\ E = InputEdges(workloads)
            /\ \A e \in E :
                   Occurrences(dep_graph.adjacency_list[e[1]], e[2])
                     = Occurrences(dep_graph.reverse_adjacency[e[2]], e[1])

\* A diamond was constructed: one workload has two prerequisites, which
\* share a prerequisite of their own.
C24_Witness ==
    /\ GraphConstructed
    /\ \E a, b, c, d \in DOMAIN dep_graph.adjacency_list :
           /\ b # c
           /\ {<<a, b>>, <<a, c>>, <<b, d>>, <<c, d>>}
                  \subseteq AdjacencyEdges(dep_graph)
           /\ dep_graph.reverse_adjacency[d] \in {<<b, c>>, <<c, b>>}

\* C25: for a list whose dependencies all name another workload of the list
\* and form no cycle (diamonds and a prerequisite listed twice included),
\* the construction succeeds, and topological_sort returns every id exactly
\* once and does not raise.
C25_ValidInputSorts ==
    (/\ ~Constructing
     /\ ~HasInvalidReference(workloads)
     /\ ~HasCycle(workloads)) =>
        /\ pc # "raised"
        /\ error = "none"
        /\ GraphConstructed
        /\ (pc = "sorted") =>
               /\ Len(execution_order) = Len(workloads)
               /\ \A wid \in InputIds(workloads) :
                      Occurrences(execution_order, wid) = 1

\* A workload that lists the same prerequisite twice was sorted, after its
\* prerequisite.
C25_Witness ==
    /\ pc = "sorted"
    /\ \E i \in 1 .. Len(workloads) :
           /\ Len(workloads[i].dependencies) = 2
           /\ workloads[i].dependencies[1] = workloads[i].dependencies[2]
           /\ IndexIn(execution_order,
                      workloads[i].dependencies[1].source_workload_id)
                < IndexIn(execution_order, workloads[i].id)

\* A diamond of four workloads was sorted.
C25_WitnessDiamond ==
    /\ pc = "sorted"
    /\ Len(execution_order) = 4
    /\ \E a, b, c, d \in InputIds(workloads) :
           /\ b # c
           /\ {<<a, b>>, <<a, c>>, <<b, d>>, <<c, d>>} = InputEdges(workloads)

\* The levels of the ids of execution_order, in its order
OrderLevels ==
    [i \in 1 .. Len(execution_order) |->
        get_workload_level(dep_graph, execution_order[i])]

\* C26: the list returned by topological_sort is non-decreasing in
\* get_workload_level; in particular every workload without dependencies
\* comes before every workload with dependencies.
C26_OrderedByLevel ==
    (pc = "sorted") =>
        /\ \A i, j \in 1 .. Len(execution_order) :
               i < j => OrderLevels[i] <= OrderLevels[j]
        /\ \A i, j \in 1 .. Len(workloads) :
               (workloads[i].dependencies = <<>>
                    /\ workloads[j].dependencies # <<>>)
                 => IndexIn(execution_order, workloads[i].id)
                      < IndexIn(execution_order, workloads[j].id)
        /\ \A i \in 1 .. Len(execution_order) :
               OrderLevels[i]
                 = LongestChain(InputEdges(workloads), {execution_order[i]})

\* Four workloads of levels 0, 0, 1 and 2 were sorted; the list gives the
\* one of level 2 first and a workload without dependencies last.
C26_Witness ==
    /\ pc = "sorted"
    /\ OrderLevels = <<0, 0, 1, 2>>
    /\ execution_order[4] = workloads[1].id
    /\ workloads[4].dependencies = <<>>

----------------------------------------------------------------------------
(* Claims about the order of a fleet, checked under SpecFleet *)

\* The greatest number of a non-empty set of numbers
MaxOf(S) == CHOOSE x \in S : \A y \in S : y <= x

\* The position in order at which a workload becomes ready: that of the last
\* of its prerequisites, 0 for a workload without dependencies
ReadyAt(order, w) ==
    IF w.dependencies = <<>> THEN 0
    ELSE MaxOf({IndexIn(order, w.dependencies[k].source_workload_id) :
                   k \in 1 .. Len(w.dependencies)})

\* order is first-in first-out: an id that becomes ready earlier comes
\* earlier, and ids that become ready together come as the list has them
FifoOrder(ws, order) ==
    LET d == workloads_dict(ws)
    IN  \A i, j \in 1 .. Len(order) :
            i < j =>
                LET a == d.workloads[order[i]]
                    b == d.workloads[order[j]]
                IN  \/ ReadyAt(order, a) < ReadyAt(order, b)
                    \/ /\ ReadyAt(order, a) = ReadyAt(order, b)
                       /\ IndexIn(d.ids, a.id) < IndexIn(d.ids, b.id)

NoDependencies(ws) == \A i \in 1 .. Len(ws) : ws[i].dependencies = <<>>

C27_WitnessReleasedTogether ==
    /\ FleetReturned
    /\ Len(workloads) = 3
    /\ DistinctIds(workloads)
    /\ workloads[3].dependencies = <<>>
    /\ workloads[1].dependencies # <<>>
    /\ workloads[2].dependencies # <<>>
    /\ execution_order
         = <<workloads[3].id, workloads[1].id, workloads[2].id>>

\* The dependencies of a workload that are not completion-gated
Ungated(w) ==
    {w.dependencies[i] : i \in {j \in 1 .. Len(w.dependencies) :
                                    ~w.dependencies[j].depends_on_completion}}

C28_WitnessNoDeadlineError ==
    /\ FleetReturned
    /\ \E i, j \in 1 .. Len(fleet_result.schedules) :
           LET s == fleet_result.schedules[i]
               p == fleet_result.schedules[j]
           IN  /\ Len(s.workload.dependencies) = 1
               /\ \E dep \in Ungated(s.workload) :
                      dep.source_workload_id = p.workload.id
               /\ p.optimal_end + s.workload.duration_hours
                     > forecast[1].timestamp + s.workload.deadline_hours

----------------------------------------------------------------------------
(* Claims about the scored window, checked under SpecSchedule *)

\* The hours that the scored window spans
ScoredSpan(w, df) == windows_needed(w, df) * resolution_hours(df)

C29_WitnessExact ==
    /\ ScheduleReturned
    /\ workload.duration_hours = 2
    /\ resolution_hours(forecast) = 1
    /\ Len(forecast) = 3
    /\ ScoredSpan(workload, forecast) = 2
    /\ OptimalIdx = 1

----------------------------------------------------------------------------
(* Claims about the log of a fleet run, checked under SpecFleet *)

\* C30 as stated: after optimize_fleet has returned for a list that is not
\* empty, the log still holds every line of the run: 'Optimizing N
\* workloads' first, and one 'Processing' line for each workload.
C30_AsStated ==
    (FleetReturned /\ workloads # <<>>) =>
        /\ optimization_log # <<>>
        /\ optimization_log[1] = "Optimizing workloads"
        /\ Occurrences(optimization_log, "Processing") = Len(execution_order)

----------------------------------------------------------------------------
(* Specification SpecFrame: optimize_schedule on a forecast whose index is
   or is not a DatetimeIndex *)

\* What the index of the caller's DataFrame holds: datetimes, or strings
\* that name the same instants
IndexDtypes == {"datetime64", "object"}

\* The forecast with each timestamp held as dtype; at is the instant named
WithIndex(df, dtype) ==
    [i \in 1 .. Len(df) |->
        [df[i] EXCEPT !.timestamp = [dtype |-> dtype, at |-> df[i].timestamp]]]

\* lines 152-153: an index that is not a DatetimeIndex is replaced, on the
\* caller's DataFrame, by pd.to_datetime of it
ensure_datetime_index(df) ==
    IF \A i \in 1 .. Len(df) : df[i].timestamp.dtype = "datetime64"
    THEN df
    ELSE [i \in 1 .. Len(df) |->
             [df[i] EXCEPT !.timestamp = [dtype |-> "datetime64", at |-> @.at]]]

\* The forecast as the rest of optimize_schedule reads it, each timestamp
\* in hours
IndexHours(df) ==
    [i \in 1 .. Len(df) |-> [df[i] EXCEPT !.timestamp = @.at]]

InitFrame ==
    /\ pc = "start"
    /\ workload \in Workloads
    /\ forecast \in {WithIndex(df, dtype) : df \in Forecasts, dtype \in IndexDtypes}
    /\ config \in Configs
    /\ optimization_log = <<>>
    /\ result = NoResult
    /\ error = "none"
    /\ workloads = <<>>
    /\ dep_graph = NoGraph
    /\ execution_order = <<>>
    /\ schedules = <<>>
    /\ completed_schedules = <<>>
    /\ fleet_result = NoResult
    /\ value = NoResult
    /\ args = NoResult

\* autopilot.optimize_schedule(workload, forecast): the empty check comes
\* before the index is looked at (lines 148-153)
OptimizeScheduleInPlace ==
    /\ pc = "start"
    /\ forecast' = ensure_datetime_index(forecast)
    /\ \E out \in {optimize_schedule(workload, IndexHours(forecast), config)} :
           /\ pc' = IF out.error = "none" THEN "returned" ELSE "raised"
           /\ result' = out.result
           /\ error' = out.error
           /\ optimization_log' = out.log
    /\ UNCHANGED <<workload, config, workloads, dep_graph, execution_order,
                   schedules, completed_schedules, fleet_result, value, args>>

NextFrame == OptimizeScheduleInPlace

SpecFrame == InitFrame /\ [][NextFrame]_vars

----------------------------------------------------------------------------
(* autopilot.py: generate_tradeoff_frontier *)

\* The most blends asked of generate_tradeoff_frontier
MaxPoints == 3

\* The values of num_points passed in: negative, zero, one and more
NumPoints == -1 .. MaxPoints

\* lines 529-548: the entry of all_windows for one start index
frontier_window(start_idx, w, df, cfg) ==
    LET wn == windows_needed(w, df)
        window_slice == ILoc(df, start_idx, start_idx + wn)
        s == calculate_window_score(window_slice, w, cfg)
        b == calculate_window_score(ILoc(df, 0, wn), w, cfg)
    IN  [start_idx |-> start_idx,
         start_time |-> df[start_idx + 1].timestamp,
         cost |-> s.cost,
         carbon |-> s.carbon,
         cost_savings |-> b.cost - s.cost,
         carbon_savings |-> b.carbon - s.carbon,
         avg_price |-> Mean(window_slice, "price"),
         avg_carbon |-> Mean(window_slice, "co2_intensity")]

\* lines 519-548: the windows from index 0 to max_start_idx, the loop
\* stopping at the first one that would run past the forecast
all_windows(w, df, cfg) ==
    LET last == Min(max_start_idx(w, df), Len(df) - windows_needed(w, df))
    IN  [k \in 1 .. Max(0, last + 1) |-> frontier_window(k - 1, w, df, cfg)]

MinOver(windows, fld) ==
    CHOOSE v \in {windows[k][fld] : k \in 1 .. Len(windows)} :
        \A k \in 1 .. Len(windows) : v <= windows[k][fld]

MaxOver(windows, fld) ==
    CHOOSE v \in {windows[k][fld] : k \in 1 .. Len(windows)} :
        \A k \in 1 .. Len(windows) : v >= windows[k][fld]

\* lines 557-558: max - min, or 1 when all the windows are equal
metric_range(windows, fld) ==
    IF MaxOver(windows, fld) > MinOver(windows, fld)
    THEN MaxOver(windows, fld) - MinOver(windows, fld)
    ELSE 1

\* lines 565-567: (cost_weight, carbon_weight) of blend i as numerators over
\* one denominator: alpha = i / (num_points - 1), or 1/2 for a single blend
blend_weights(i, num_points) ==
    IF num_points > 1
    THEN [cost_weight |-> num_points - 1 - i, carbon_weight |-> i]
    ELSE [cost_weight |-> 1, carbon_weight |-> 1]

\* lines 574-579: norm_cost * cost_weight + norm_carbon * carbon_weight,
\* multiplied by cost_range * carbon_range and the weights' denominator
blend_score(window, windows, i, num_points) ==
    LET bw == blend_weights(i, num_points)
    IN  (window.cost - MinOver(windows, "cost"))
            * metric_range(windows, "carbon") * bw.cost_weight
        + (window.carbon - MinOver(windows, "carbon"))
            * metric_range(windows, "cost") * bw.carbon_weight

\* lines 570-583: the first window with the least score of blend i
blend_best_window(windows, i, num_points) ==
    CHOOSE k \in 1 .. Len(windows) :
        /\ \A j \in 1 .. Len(windows) :
               blend_score(windows[k], windows, i, num_points)
                   <= blend_score(windows[j], windows, i, num_points)
        /\ \A j \in 1 .. k - 1 :
               blend_score(windows[k], windows, i, num_points)
                   < blend_score(windows[j], windows, i, num_points)

\* every blend's window kept, repeated or not
record_point_every_time(selected, k) == Append(selected, k)

\* lines 585-587: selected_points[start_idx] = best_window; a key already
\* there keeps its place
record_point(selected, k) ==
    IF \E n \in 1 .. Len(selected) : selected[n] = k
    THEN selected
    ELSE Append(selected, k)

\* lines 563-587: the blends i = 0 .. num_points - 1 in turn
RECURSIVE select_points(_, _, _, _)
select_points(i, num_points, windows, selected) ==
    IF i >= num_points
    THEN selected
    ELSE select_points(i + 1, num_points, windows,
                       record_point(selected,
                                    blend_best_window(windows, i, num_points)))

\* sorted(..., key=cost): equal costs keep their order
insert_by_cost(sorted, p) ==
    LET before == {n \in 0 .. Len(sorted) :
                      \A m \in 1 .. n : sorted[m].cost <= p.cost}
        at == CHOOSE n \in before : \A m \in before : m <= n
    IN  SubSeq(sorted, 1, at) \o <<p>> \o SubSeq(sorted, at + 1, Len(sorted))

RECURSIVE sorted_by_cost(_)
sorted_by_cost(points) ==
    IF points = <<>>
    THEN <<>>
    ELSE insert_by_cost(sorted_by_cost(SubSeq(points, 1, Len(points) - 1)),
                        points[Len(points)])

\* Autopilot.generate_tradeoff_frontier: the exception raised or the list
\* returned, and the log it leaves
generate_tradeoff_frontier(w, df, cfg, num_points) ==
    IF df = <<>>
    THEN [error |-> "Forecast data is empty", result |-> NoResult,
          log |-> <<"Generating tradeoff frontier">>]
    ELSE LET windows == all_windows(w, df, cfg)
             selected == select_points(0, num_points, windows, <<>>)
         IN  [error |-> "none",
              result |-> IF windows = <<>>
                         THEN <<>>
                         ELSE sorted_by_cost([n \in 1 .. Len(selected) |->
                                                 windows[selected[n]]]),
              log |-> <<"Generating tradeoff frontier">>]

----------------------------------------------------------------------------
(* Specification SpecFrontier: one call of generate_tradeoff_frontier *)

InitFrontier ==
    /\ pc = "start"
    /\ workload \in Workloads
    /\ forecast \in Forecasts
    /\ config \in Configs
    /\ args \in [num_points : NumPoints]
    /\ optimization_log = <<>>
    /\ result = NoResult
    /\ error = "none"
    /\ workloads = <<>>
    /\ dep_graph = NoGraph
    /\ execution_order = <<>>
    /\ schedules = <<>>
    /\ completed_schedules = <<>>
    /\ fleet_result = NoResult
    /\ value = NoResult

\* autopilot.generate_tradeoff_frontier(workload, forecast, num_points), the
\* forecast already indexed by a DatetimeIndex
GenerateTradeoffFrontier ==
    /\ pc = "start"
    /\ \E out \in {generate_tradeoff_frontier(workload, forecast, config,
                                                args.num_points)} :
           /\ pc' = IF out.error = "none" THEN "returned" ELSE "raised"
           /\ result' = out.result
           /\ error' = out.error
           /\ optimization_log' = out.log
    /\ UNCHANGED <<workload, forecast, config, workloads, dep_graph,
                   execution_order, schedules, completed_schedules,
                   fleet_result, value, args>>

NextFrontier == GenerateTradeoffFrontier

SpecFrontier == InitFrontier /\ [][NextFrontier]_vars

----------------------------------------------------------------------------
(* Specification SpecScore: one call of _calculate_window_score on a slice
   of a forecast, the empty slice included *)

InitScore ==
    /\ pc = "start"
    /\ workload \in Workloads
    /\ forecast \in Forecasts
    /\ config \in Configs
    /\ optimization_log = <<>>
    /\ result = NoResult
    /\ error = "none"
    /\ workloads = <<>>
    /\ dep_graph = NoGraph
    /\ execution_order = <<>>
    /\ schedules = <<>>
    /\ completed_schedules = <<>>
    /\ fleet_result = NoResult
    /\ value = NoResult
    /\ args = NoResult

\* value = autopilot._calculate_window_score(forecast, workload)
CalculateWindowScore ==
    /\ pc = "start"
    /\ pc' = "scored"
    /\ value' = calculate_window_score(forecast, workload, config)
    /\ UNCHANGED <<workload, forecast, config, optimization_log, result, error,
                   workloads, dep_graph, execution_order, schedules,
                   completed_schedules, fleet_result, args>>

NextScore == CalculateWindowScore

SpecScore == InitScore /\ [][NextScore]_vars

\* C31 as stated: a call leaves the caller's forecast and workload as they
\* were, timestamps and values alike.
C31_AsStated ==
    [][(pc = "start") => (forecast' = forecast /\ workload' = workload)]_vars

----------------------------------------------------------------------------
(* Claims that compare runs of optimize_fleet, checked under SpecFleet *)

\* The workloads of the list whose ids are in keep, in the order of the list
Restrict(ws, keep) == SelectSeq(ws, LAMBDA w : w.id \in keep)

\* The id with its transitive prerequisites, over dependencies of both kinds
WithPrerequisites(ws, wid) == Prerequisites(InputEdges(ws), wid) \cup {wid}

\* The schedules that optimize_fleet returns for the list, <<>> if it raises
SchedulesFor(ws) ==
    Only({IF out.error = "none" THEN out.result.schedules ELSE <<>> :
             out \in {optimize_fleet(ws, forecast, config, <<>>)}})

\* C32: the schedule of a workload in a fleet is the one it gets in the
\* fleet of itself and its transitive prerequisites alone: workloads that
\* are not among its prerequisites, wherever they stand in the list, do not
\* change it; and it is the schedule optimize_schedule gives on the forecast
\* moved to the earliest start its completion-gated prerequisites allow.
C32_IndependentOfOthers ==
    FleetReturned =>
        \A i \in 1 .. Len(fleet_result.schedules) :
            LET s == fleet_result.schedules[i]
                w == s.workload
                start == EarliestStart(w)
                shifted == IF start > forecast[1].timestamp
                           THEN shift_forecast(forecast,
                                    start - forecast[1].timestamp, start)
                           ELSE forecast
            IN  /\ s \in SeqToSet(SchedulesFor(
                              Restrict(workloads,
                                       WithPrerequisites(workloads, w.id))))
                /\ s = optimize_schedule(w, shifted, config).result

\* A fleet of three was returned in which the second workload waits for the
\* third and the first, unrelated to both, takes the cheaper sample; the
\* second has the schedule it has without the first.
C32_Witness ==
    /\ FleetReturned
    /\ Len(workloads) = 3
    /\ DistinctIds(workloads)
    /\ workloads[1].dependencies = <<>>
    /\ workloads[3].dependencies = <<>>
    /\ CompletionGated(workloads[2]) # {}
    /\ WithPrerequisites(workloads, workloads[2].id)
         = {workloads[2].id, workloads[3].id}
    /\ ScheduleOf(workloads[1].id).optimal_start > forecast[1].timestamp
    /\ ScheduleOf(workloads[2].id)
         \in SeqToSet(SchedulesFor(<<workloads[2], workloads[3]>>))

----------------------------------------------------------------------------
(* Claims that compare calls of optimize_schedule, checked under
   SpecSchedule *)

\* The window and the metrics of a ScheduleResult, without the workload
Outcome(r) == [r EXCEPT !.workload = NoResult]

\* What optimize_schedule returns for the workload of the state with its
\* priority replaced
OutcomeWithPriority(p) ==
    Outcome(optimize_schedule([workload EXCEPT !.priority = p],
                              forecast, config).result)

----------------------------------------------------------------------------
(* Claims about generate_tradeoff_frontier, checked under SpecFrontier *)

FrontierReturned == pc = "returned" /\ "num_points" \in DOMAIN args

\* The start indices whose window ends by the deadline and inside the
\* forecast
DeadlineStarts ==
    {i \in 0 .. Len(forecast) - 1 :
        /\ i + windows_needed(workload, forecast) <= Len(forecast)
        /\ forecast[i + 1].timestamp + workload.duration_hours
              <= forecast[1].timestamp + workload.deadline_hours}

\* Cost and carbon of the window that starts at index i
WindowMetrics(i) ==
    calculate_window_score(
        ILoc(forecast, i, i + windows_needed(workload, forecast)),
        workload, config)

Spread(S, fld) ==
    LET vals == {WindowMetrics(i)[fld] : i \in S}
        hi == CHOOSE v \in vals : \A x \in vals : v >= x
        lo == CHOOSE v \in vals : \A x \in vals : v <= x
    IN  IF hi > lo THEN hi - lo ELSE 1

\* Window i is no worse than window j under equal weights on the two
\* min-max normalised metrics (the common offsets cancel, the ranges are
\* multiplied out)
EvenBlendNoWorse(i, j) ==
    (WindowMetrics(i).cost - WindowMetrics(j).cost)
        * Spread(DeadlineStarts, "carbon")
    + (WindowMetrics(i).carbon - WindowMetrics(j).carbon)
        * Spread(DeadlineStarts, "cost") <= 0

\* C36: the frontier has at most num_points points, no two with the same
\* start index, in ascending order of cost; a single blend weighs cost and
\* carbon equally; without a feasible window, or with num_points <= 0, the
\* list is empty.
C36_FrontierShape ==
    FrontierReturned =>
        /\ args.num_points > 0 => Len(result) <= args.num_points
        /\ \A m, n \in 1 .. Len(result) :
               m # n => result[m].start_idx # result[n].start_idx
        /\ \A m, n \in 1 .. Len(result) :
               m < n => result[m].cost <= result[n].cost
        /\ (args.num_points = 1 /\ DeadlineStarts # {}) =>
               /\ Len(result) = 1
               /\ \A j \in DeadlineStarts :
                      EvenBlendNoWorse(result[1].start_idx, j)
        /\ (DeadlineStarts = {} \/ args.num_points <= 0) => result = <<>>
        /\ (DeadlineStarts # {} /\ args.num_points > 0) => result # <<>>

\* Three blends gave two points: the cheapest window first, a dearer and
\* cleaner one second.
C36_Witness ==
    /\ FrontierReturned
    /\ args.num_points = 3
    /\ Len(result) = 2
    /\ result[1].cost < result[2].cost
    /\ result[1].carbon > result[2].carbon

\* C37 as stated: every point of the frontier starts at an index within
\* [min_delay_windows, max_start_idx], the range optimize_schedule searches.
C37_AsStated ==
    FrontierReturned =>
        \A n \in 1 .. Len(result) :
            /\ result[n].start_idx >= min_delay_windows(config, forecast)
            /\ result[n].start_idx <= max_start_idx(workload, forecast)

----------------------------------------------------------------------------
(* Claims that compare optimizers, checked under SpecFrontier *)

\* The config of the state with prefer_continuous the other way
OtherContinuity == [config EXCEPT !.prefer_continuous = ~@]

\* The workload of the state followed by a second one that waits for it to
\* complete
ChainOfTwo ==
    <<workload,
      [workload EXCEPT !.id = 2, !.dependencies = <<Dep(1, TRUE, 0)>>]>>

\* C34: two optimizers whose configs differ only in prefer_continuous return
\* the same from generate_tradeoff_frontier, from optimize_schedule and from
\* optimize_fleet (results, exceptions and logs alike).
C34_PreferContinuousInert ==
    (pc # "start") =>
        /\ generate_tradeoff_frontier(workload, forecast, OtherContinuity,
                                      args.num_points)
              = [error |-> error, result |-> result, log |-> optimization_log]
        /\ optimize_schedule(workload, forecast, OtherContinuity)
              = optimize_schedule(workload, forecast, config)
        /\ optimize_fleet(ChainOfTwo, forecast, OtherContinuity, <<>>)
              = optimize_fleet(ChainOfTwo, forecast, config, <<>>)

\* A two-sample workload on a forecast whose samples differ: the frontier
\* has two points, the schedule is delayed and the chain of two is
\* scheduled, with prefer_continuous FALSE as with TRUE.
C34_Witness ==
    /\ FrontierReturned
    /\ config.prefer_continuous
    /\ windows_needed(workload, forecast) = 2
    /\ Len(result) = 2
    /\ generate_tradeoff_frontier(workload, forecast, OtherContinuity,
                                  args.num_points).result = result
    /\ optimize_schedule(workload, forecast, OtherContinuity).result.optimal_start
          > forecast[1].timestamp
    /\ optimize_fleet(<<workload>>, forecast, OtherContinuity, <<>>).error = "none"

----------------------------------------------------------------------------
(* Consistency of the FleetResult, checked under SpecFleet *)

\* C35 as stated: whatever list optimize_fleet accepted, the FleetResult has
\* total_workloads = len(schedules) = len(dependency_order), and no id
\* twice in dependency_order.
C35_AsStated ==
    FleetReturned =>
        /\ fleet_result.total_workloads = Len(fleet_result.schedules)
        /\ Len(fleet_result.schedules) = Len(fleet_result.dependency_order)
        /\ \A i, j \in 1 .. Len(fleet_result.dependency_order) :
               i # j => fleet_result.dependency_order[i]
                            # fleet_result.dependency_order[j]

----------------------------------------------------------------------------
(* The window scorer, checked under SpecScore *)

\* A sum of n samples with the mean capped at a ceiling
CappedSum(total, n, ceiling) ==
    IF total >= ceiling * n THEN ceiling * n ELSE total

\* C38: for a non-empty slice the scorer returns cost = mean price * energy,
\* carbon = mean intensity * energy and score = the two means over their
\* ceilings, each capped at 1, weighted by price_weight and carbon_weight;
\* for an empty slice it returns (infinity, 0, 0), and an infinite score
\* is less than no score, so the search never selects it.
\* Units: cost and carbon carry the factor MeanScale, the score the factor
\* PriceCeiling * CarbonCeiling * MeanScale over 100 times the weights' unit;
\* the means are multiplied out by the slice's length.
C38_ScorerFormula ==
    (pc = "scored") =>
        IF forecast = <<>>
        THEN /\ value = [score |-> Infinity, cost |-> 0, carbon |-> 0]
             /\ ~ScoreLess(value.score, Infinity)
             /\ \A v \in SampleValues :
                    LET other == calculate_window_score(<<v>>, workload, config)
                    IN  /\ ~ScoreLess(value.score, other.score)
                        /\ ScoreLess(other.score, value.score)
        ELSE LET n == Len(forecast)
                 prices == SumField(forecast, "price")
                 carbons == SumField(forecast, "co2_intensity")
                 energy == workload.power_draw_kw * workload.duration_hours
             IN  /\ ~value.score.inf
                 /\ value.cost * n = MeanScale * prices * energy
                 /\ value.carbon * n = MeanScale * carbons * energy
                 /\ value.score.val * n
                       = MeanScale
                         * (CarbonCeiling * config.price_weight
                                * CappedSum(prices, n, PriceCeiling)
                            + PriceCeiling * config.carbon_weight
                                * CappedSum(carbons, n, CarbonCeiling))

\* A slice of two samples whose mean price and mean intensity are both
\* above their ceilings: both ratios are capped and the score is the most
\* there is.
C38_Witness ==
    /\ pc = "scored"
    /\ Len(forecast) = 2
    /\ SumField(forecast, "price") > 2 * PriceCeiling
    /\ SumField(forecast, "co2_intensity") > 2 * CarbonCeiling
    /\ value.score
          = Finite(MeanScale * PriceCeiling * CarbonCeiling
                   * (config.price_weight + config.carbon_weight))
    /\ value.cost > 0

============================================================================
